---- MODULE Spec2Model ----
(***************************************************************************)
(* Model of vintedreposter: the marketplace client (vinted.py) and the     *)
(* repost orchestrator (cli.py main, runs without --login-browser).        *)
(*                                                                         *)
(* Python dicts are functions whose DOMAIN is the set of present keys.     *)
(* Python None in an integer slot is the value None (-1); real values of   *)
(* such slots are never negative.  Strings that the code inspects          *)
(* character by character (cookie values, operator input) are sequences    *)
(* of one-character strings.                                               *)
(***************************************************************************)
EXTENDS Integers, Sequences, FiniteSets, TLC

VARIABLES
    pc,          \* position of the run
    exit_code,   \* process exit status, None while running
    ending,      \* history: how the run ended, "" while running
    page,        \* wardrobe_items_all: page cursor
    items_all,   \* wardrobe_items_all: accumulated items; main: items
    max_pages,   \* wardrobe_items_all: max_pages argument (None = not supplied)
    per_page,    \* wardrobe_items_all: per_page argument (main: args.per_page)
    requested,   \* history: page numbers requested so far, in request order
    served,      \* history: the item list of every page response, in order
    totals,      \* history: the total_pages values reported so far
    cookies,     \* the cookie jar parsed from the curl text
    jwt,         \* TRUE when the pyjwt import succeeded
    user_id,     \* main: result of get_user_id
    browser,     \* main: args.browser
    csrf_list,   \* main: token fetched for enrichment
    ncsrf,       \* history: number of extract_csrf calls made so far
    enriched,    \* main: the enriched listings (sorted once pc = "select")
    ei,          \* main: index of the next listing to enrich
    item,        \* main: the selected listing
    fills,       \* history: per browser form-fill attempt, whether it confirmed
    csrf,        \* main: token fetched at the write gate
    details,     \* main: editor payload of the selected listing
    photos,      \* main: source photo list of the API path
    pi,          \* main: index of the next photo to process
    assigned_photos,   \* main: photo assignments collected so far
    upload_temp_uuid,  \* main: session id of this run's uploads
    item_payload,      \* main: the creation payload
    outcomes,    \* history: per source photo, whether it was downloaded and
                 \* uploaded, and the body of the upload response
    asked,       \* history: the prompts shown to the operator
    writes,      \* history: the write requests issued, in order
    capability,  \* extract_csrf: TRUE when fetch_csrf_with_browser is defined
    consulted,   \* history: the strategies extract_csrf ran, with what they met
    csrf_ret,    \* extract_csrf: the value returned
    calls,       \* history: calls of the pure helpers, [arg, ret] in call order
    timeout,     \* _wait_for_login_and_cookies: timeout argument
    now,         \* _wait_for_login_and_cookies: time.time(), from the call on
    end,         \* _wait_for_login_and_cookies: deadline, None when infinite
    polls,       \* history: what every poll of the wait observed
    login_cookies  \* _wait_for_login_and_cookies: the value returned

ctlVars == <<pc, exit_code, ending>>
laVars == <<page, items_all, max_pages, per_page, requested, served, totals>>
idVars == <<cookies, jwt, user_id, browser>>
enVars == <<csrf_list, ncsrf, enriched, ei>>
apiVars == <<csrf, details, photos, pi, assigned_photos, upload_temp_uuid,
             item_payload, outcomes>>
logVars == <<fills, asked, writes>>

csrfVars == <<capability, consulted, csrf_ret>>
waitVars == <<timeout, now, end, polls, login_cookies>>
auxVars == <<csrfVars, calls, waitVars>>

vars == <<ctlVars, laVars, idVars, enVars, item, apiVars, logVars, auxVars>>

None == -1
HttpErr == -2

\* ---------------------------------------------------------------- bounds
MaxPage == 3
MaxPerPage == 2
MaxItems == 2
MaxPhotos == 2

\* ------------------------------------------------------- generic helpers
Get(d, k) == IF k \in DOMAIN d THEN d[k] ELSE None

SeqsUpTo(S, n) == UNION {[1..m -> S] : m \in 0..n}

RECURSIVE Flatten(_)
Flatten(ss) == IF ss = <<>> THEN <<>> ELSE Head(ss) \o Flatten(Tail(ss))

\* Python dict merge {**a, **b}: keys of b override keys of a.
Merge(a, b) ==
    [k \in DOMAIN a \cup DOMAIN b |-> IF k \in DOMAIN b THEN b[k] ELSE a[k]]

\* A request either raises (ok is FALSE) or returns one of the bodies.
Responses(bodies) ==
    {[ok |-> FALSE, body |-> <<>>]} \cup {[ok |-> TRUE, body |-> b] : b \in bodies}

\* ------------------------------------------------------ strings, integers
Digits == {"0", "1", "2", "3", "4", "5", "6", "7", "8", "9"}

DigitVal(c) ==
    CASE c = "0" -> 0 [] c = "1" -> 1 [] c = "2" -> 2 [] c = "3" -> 3
      [] c = "4" -> 4 [] c = "5" -> 5 [] c = "6" -> 6 [] c = "7" -> 7
      [] c = "8" -> 8 [] c = "9" -> 9

\* str.isdigit(): non-empty and every character a digit
isdigit(s) == s # <<>> /\ \A i \in 1..Len(s) : s[i] \in Digits

\* int(s) of an all-digit string
RECURSIVE int_digits(_)
int_digits(s) ==
    IF s = <<>> THEN 0
    ELSE 10 * int_digits(SubSeq(s, 1, Len(s) - 1)) + DigitVal(s[Len(s)])

\* int(s) of operator input: digits with an optional sign; anything else is a
\* ValueError, reported as [ok |-> FALSE].
int_parse(s) ==
    IF isdigit(s) THEN [ok |-> TRUE, n |-> int_digits(s)]
    ELSE IF Len(s) > 1 /\ s[1] \in {"-", "+"} /\ isdigit(Tail(s))
         THEN [ok |-> TRUE,
               n |-> IF s[1] = "-" THEN 0 - int_digits(Tail(s))
                     ELSE int_digits(Tail(s))]
         ELSE [ok |-> FALSE, n |-> 0]

\* --------------------------------------------------------------- identity
\* Values of the v_uid cookie.
UidStrings == {<<>>, <<"0">>, <<"4", "2">>, <<"4", "a">>}

\* Values of the access_token_web cookie, by what jwt.decode makes of them:
\* a token that does not decode, or the payload of one that does.  A "sub"
\* claim is a JSON string or a JSON number.
SubClaims == {[str |-> <<"7">>], [str |-> <<"x">>], [num |-> 7], [num |-> 0]}

Tokens == {[decodes |-> FALSE, payload |-> <<>>],
           [decodes |-> TRUE, payload |-> <<>>]}
          \cup {[decodes |-> TRUE, payload |-> [sub |-> c]] : c \in SubClaims}

CookieJars ==
    {<<>>}
    \cup {[v_uid |-> u] : u \in UidStrings}
    \cup {[access_token_web |-> t] : t \in Tokens}
    \cup {[v_uid |-> u, access_token_web |-> t] : u \in UidStrings, t \in Tokens}

\* `sub and str(sub).isdigit()` followed by int(sub)
SubToId(sub) ==
    IF "str" \in DOMAIN sub
    THEN IF sub.str # <<>> /\ isdigit(sub.str) THEN int_digits(sub.str) ELSE None
    ELSE IF sub.num # 0 /\ sub.num >= 0 THEN sub.num ELSE None

get_user_id(jar, jwtlib) ==
    IF "v_uid" \in DOMAIN jar /\ jar["v_uid"] # <<>> /\ isdigit(jar["v_uid"])
    THEN int_digits(jar["v_uid"])
    ELSE IF "access_token_web" \in DOMAIN jar /\ jwtlib
         THEN LET token == jar["access_token_web"]
              IN  IF token.decodes /\ "sub" \in DOMAIN token.payload
                  THEN SubToId(token.payload["sub"])
                  ELSE None
         ELSE None

\* ------------------------------------------------ listings on the server
\* Photo entries of a payload: one with a direct URL, one without any URL.
PhotoUrl == [url |-> "u", high_resolution |-> [timestamp |-> 3]]
PhotoBare == [id |-> 9]

\* A created_at string, by what datetime.fromisoformat makes of it: the UTC
\* instant of a well-formed string, or a ValueError.
DateOk == [iso |-> TRUE, instant |-> 4000]
DateBad == [iso |-> FALSE, instant |-> 0]

\* Summary payloads the wardrobe endpoint can return.
Listings == {
    [id |-> 1, title |-> "a", catalog_id |-> 4],
    [id |-> 2, title |-> "b", favorite_count |-> 3, created_at_ts |-> 5,
     brand_id |-> 7, size_id |-> 3, catalog_id |-> 4, status_id |-> 2,
     photos |-> <<PhotoUrl>>] }

PaginationDicts ==
    UNION {[ks -> 1..MaxPage] : ks \in SUBSET {"total_pages", "current_page"}}

\* The "pagination" member of a response body: a dict, or a non-dict value.
Paginations ==
    {[isdict |-> TRUE, d |-> d] : d \in PaginationDicts}
        \cup {[isdict |-> FALSE, d |-> <<>>]}

\* Response bodies of GET /api/v2/wardrobe/{id}/items; the items are under
\* "items" or under "catalog_items".
WardrobeBodies ==
    {[items |-> its, pagination |-> pg] :
        its \in SeqsUpTo(Listings, MaxPerPage), pg \in Paginations}
    \cup
    {[catalog_items |-> its, pagination |-> pg] :
        its \in SeqsUpTo(Listings, MaxPerPage), pg \in Paginations}

\* ----------------------------------------------------- wardrobe_items_page
\* data.get('items') or data.get('catalog_items') or []
PageItems(data) ==
    IF "items" \in DOMAIN data /\ data["items"] # <<>> THEN data["items"]
    ELSE IF "catalog_items" \in DOMAIN data /\ data["catalog_items"] # <<>>
         THEN data["catalog_items"]
         ELSE <<>>

\* data.get('pagination') or {}
PagePagination(data) ==
    IF "pagination" \in DOMAIN data THEN data["pagination"]
    ELSE [isdict |-> TRUE, d |-> <<>>]

wardrobe_items_page(data) ==
    [items |-> PageItems(data), pagination |-> PagePagination(data)]

\* ------------------------------------------------------ wardrobe_items_all
\* The stop decision taken after page `p` has been fetched:
\* "break", "next" or "raise" (None >= int is a TypeError).
LoopDecision(p, items, pagination, mp, pp) ==
    LET total_pages  == IF pagination.isdict
                        THEN Get(pagination.d, "total_pages") ELSE None
        current_page == IF pagination.isdict
                        THEN Get(pagination.d, "current_page") ELSE p
    IN  IF mp # None /\ p >= mp THEN "break"
        ELSE IF total_pages = None
             THEN IF items = <<>> \/ Len(items) < pp THEN "break" ELSE "next"
             ELSE IF current_page = None THEN "raise"
                  ELSE IF current_page >= total_pages THEN "break" ELSE "next"

\* One iteration of the loop: request page `page`; the server answers with a
\* body, or with a non-2xx status (raise_for_status raises).
ListPageOk ==
    /\ pc = "list"
    /\ page <= MaxPage
    /\ \E data \in WardrobeBodies :
         LET r   == wardrobe_items_page(data)
             dec == LoopDecision(page, r.items, r.pagination, max_pages, per_page)
         IN  /\ Len(items_all) + Len(r.items) <= MaxItems
             /\ items_all' = items_all \o r.items
             /\ requested' = Append(requested, page)
             /\ served' = Append(served, r.items)
             /\ totals' = totals \cup
                   {IF r.pagination.isdict
                    THEN Get(r.pagination.d, "total_pages") ELSE None}
             /\ page' = IF dec = "next" THEN page + 1 ELSE page
             /\ pc' = CASE dec = "next"  -> "list"
                        [] dec = "break" -> "list_returned"
                        [] dec = "raise" -> "list_raised"
    /\ UNCHANGED <<exit_code, ending, max_pages, per_page>>
    /\ UNCHANGED <<idVars, enVars, item, apiVars, logVars>>
    /\ UNCHANGED auxVars

ListPageHttpError ==
    /\ pc = "list"
    /\ page <= MaxPage
    /\ requested' = Append(requested, page)
    /\ totals' = totals \cup {HttpErr}
    /\ pc' = "list_raised"
    /\ UNCHANGED <<exit_code, ending, page, items_all, max_pages, per_page, served>>
    /\ UNCHANGED <<idVars, enVars, item, apiVars, logVars>>
    /\ UNCHANGED auxVars

\* ------------------------------------------------------------ run control
\* The values of the later stages of main before they are first assigned.
Idle ==
    /\ csrf_list = None
    /\ ncsrf = 0
    /\ enriched = <<>>
    /\ ei = 1
    /\ item = <<>>
    /\ fills = <<>>
    /\ csrf = None
    /\ details = <<>>
    /\ photos = <<>>
    /\ pi = 1
    /\ assigned_photos = <<>>
    /\ upload_temp_uuid = None
    /\ item_payload = <<>>
    /\ outcomes = <<>>
    /\ asked = <<>>
    /\ writes = <<>>

\* The state of the helpers outside main, while none of them runs.
AuxIdle ==
    /\ capability = FALSE
    /\ consulted = <<>>
    /\ csrf_ret = None
    /\ calls = <<>>
    /\ timeout = 0
    /\ now = 0
    /\ end = None
    /\ polls = <<>>
    /\ login_cookies = <<>>

\* sys.exit(code), a return from main (code 0), or an uncaught exception
\* (the interpreter exits with status 1).
Exit(code, how) ==
    /\ pc' = "exit"
    /\ exit_code' = code
    /\ ending' = how

Continue(next) ==
    /\ pc' = next
    /\ UNCHANGED <<exit_code, ending>>

\* ------------------------------------------------------------ extract_csrf
\* What the two strategies meet: the browser strategy is unavailable, finds a
\* token, finds none or raises; the plain-HTTP fallback finds a token or not
\* (every failure of it returns None).
CsrfAttempts ==
    {"unavailable", "token", "none", "raise"} \X {"token", "none"}

\* `tok` names the token the page carries at this call.
extract_csrf(attempt, tok) ==
    IF attempt[1] = "token" THEN tok
    ELSE IF attempt[2] = "token" THEN tok ELSE None

\* ------------------------------------------------------- main: identity gate
\* cli.py 157-165: the gate, and the call of wardrobe_items_all with
\* per_page=args.per_page (read nowhere else) and no max_pages.
IdentityGate ==
    /\ pc = "start"
    /\ user_id' = get_user_id(cookies, jwt)
    /\ IF user_id' = None \/ user_id' = 0
       THEN /\ Exit(1, "identity_unresolved")
            /\ UNCHANGED per_page
       ELSE /\ Continue("list")
            /\ per_page' \in 1..MaxPerPage
    /\ UNCHANGED <<page, items_all, max_pages, requested, served, totals>>
    /\ UNCHANGED <<cookies, jwt, browser, enVars, item, apiVars, logVars>>
    /\ UNCHANGED auxVars

\* ---------------------------------------------------------- main: listing
\* An exception of wardrobe_items_all is not caught by main.
ListRaised ==
    /\ pc = "list_raised"
    /\ Exit(1, "uncaught_error")
    /\ UNCHANGED <<laVars, idVars, enVars, item, apiVars, logVars>>
    /\ UNCHANGED auxVars

\* cli.py 165-175: the call returns (its frame and history are dropped);
\* an empty listing ends the run, otherwise the enrichment token is fetched.
ListReturned ==
    /\ pc = "list_returned"
    /\ page' = 1
    /\ per_page' = None
    /\ requested' = <<>>
    /\ served' = <<>>
    /\ totals' = {}
    /\ IF items_all = <<>>
       THEN /\ Exit(0, "empty_listing")
            /\ UNCHANGED <<csrf_list, ncsrf>>
       ELSE /\ Continue("enrich")
            /\ ncsrf' = ncsrf + 1
            /\ \E a \in CsrfAttempts : csrf_list' = extract_csrf(a, ncsrf + 1)
    /\ UNCHANGED <<items_all, max_pages, idVars, enriched, ei, item, apiVars, logVars>>
    /\ UNCHANGED auxVars

\* -------------------------------------------------------- main: enrichment
StatKeys == {"favorite_count", "favourite_count", "view_count", "views"}
CreatedKeys == {"created_at", "created_at_ts"}

\* Bodies of GET /api/v2/items/{id} (the "item" member)
ItemBodies == {
    <<>>,
    [view_count |-> 2],
    [favorite_count |-> 1, created_at_ts |-> 6] }

\* Bodies of GET /api/v2/item_upload/items/{id} as enrichment reads them
EditorDateBodies == {
    <<>>,
    [item |-> [created_at |-> DateOk]],
    [created_at_ts |-> 4] }

\* cli.py 185-187: copy the stats and dates that det carries
MergeDetail(it, det) ==
    LET copied == DOMAIN det \cap (StatKeys \cup CreatedKeys)
    IN  [k \in DOMAIN it \cup copied |-> IF k \in copied THEN det[k] ELSE it[k]]

\* cli.py 194-200
MergeEditor(it, ed) ==
    LET nested == IF "item" \in DOMAIN ed /\ "created_at" \in DOMAIN ed["item"]
                  THEN [created_at |-> ed["item"]["created_at"]] ELSE <<>>
        a == IF "created_at" \in DOMAIN it THEN it ELSE Merge(it, nested)
    IN  IF "created_at_ts" \in DOMAIN ed
        THEN Merge(a, [created_at_ts |-> ed["created_at_ts"]])
        ELSE a

\* cli.py 177-203 for one listing; det and ed are the responses of the two
\* requests (ok is FALSE when the request raises).
EnrichOne(it, det, ed, token) ==
    LET need_stats   == DOMAIN it \cap StatKeys = {}
        need_created == DOMAIN it \cap CreatedKeys = {}
        it1 == IF (need_stats \/ need_created) /\ det.ok
               THEN MergeDetail(it, det.body) ELSE it
    IN  IF DOMAIN it1 \cap CreatedKeys = {} /\ token # None /\ ed.ok
        THEN MergeEditor(it1, ed.body) ELSE it1

\* A loop body that leaves the listing out when its detail request failed.
EnrichItemDropping ==
    /\ pc = "enrich"
    /\ ei <= Len(items_all)
    /\ \E det \in Responses(ItemBodies), ed \in Responses(EditorDateBodies) :
         LET it == EnrichOne(items_all[ei], det, ed, csrf_list)
         IN  /\ items_all' = [items_all EXCEPT ![ei] = it]
             /\ enriched' = IF det.ok THEN Append(enriched, it) ELSE enriched
    /\ ei' = ei + 1
    /\ UNCHANGED <<ctlVars, page, max_pages, per_page, requested, served, totals>>
    /\ UNCHANGED <<idVars, csrf_list, ncsrf, item, apiVars, logVars>>
    /\ UNCHANGED auxVars

\* cli.py 177-203: one pass of the loop; the listing is updated in place
\* and appended to enriched.
EnrichItem ==
    /\ pc = "enrich"
    /\ ei <= Len(items_all)
    /\ \E det \in Responses(ItemBodies), ed \in Responses(EditorDateBodies) :
         LET it == EnrichOne(items_all[ei], det, ed, csrf_list)
         IN  /\ items_all' = [items_all EXCEPT ![ei] = it]
             /\ enriched' = Append(enriched, it)
    /\ ei' = ei + 1
    /\ UNCHANGED <<ctlVars, page, max_pages, per_page, requested, served, totals>>
    /\ UNCHANGED <<idVars, csrf_list, ncsrf, item, apiVars, logVars>>
    /\ UNCHANGED auxVars

\* ------------------------------------------------------- creation date, sort
\* Timestamps are counted in units of 10^7 seconds and instants in
\* thousandths of that unit, so that the heuristic of cli.py 42 divides
\* exactly: 10_000_000_000 is 1000 units.
MsThreshold == 1000

\* A heuristic that takes the threshold itself for milliseconds.
IsMillisFromThreshold(ts) == ts >= MsThreshold

\* cli.py 42: the heuristic, ms or s
IsMillis(ts) == ts > MsThreshold

PhotoStamps(ps) ==
    {ps[j]["high_resolution"]["timestamp"] :
        j \in {n \in 1..Len(ps) :
                 /\ "high_resolution" \in DOMAIN ps[n]
                 /\ "timestamp" \in DOMAIN ps[n]["high_resolution"]
                 /\ ps[n]["high_resolution"]["timestamp"] # None}}

Min(S) == CHOOSE m \in S : \A n \in S : m <= n

\* A resolution that reads the photos before the created_at string.
_parse_created_at_photos_first(x) ==
    LET created_at ==
            IF "created_at" \in DOMAIN x THEN x["created_at"]
            ELSE IF "item" \in DOMAIN x /\ "created_at" \in DOMAIN x["item"]
                 THEN x["item"]["created_at"] ELSE DateBad
        stamps == IF "photos" \in DOMAIN x THEN PhotoStamps(x["photos"]) ELSE {}
    IN  IF "created_at_ts" \in DOMAIN x /\ x["created_at_ts"] # None
        THEN IF IsMillis(x["created_at_ts"])
             THEN x["created_at_ts"] ELSE 1000 * x["created_at_ts"]
        ELSE IF stamps # {} THEN 1000 * Min(stamps)
        ELSE IF created_at.iso THEN created_at.instant
        ELSE None

\* cli.py 36-80; None when the date is unknown, and a created_at_ts of None
\* is JSON null
_parse_created_at(x) ==
    LET created_at ==
            IF "created_at" \in DOMAIN x THEN x["created_at"]
            ELSE IF "item" \in DOMAIN x /\ "created_at" \in DOMAIN x["item"]
                 THEN x["item"]["created_at"] ELSE DateBad
        stamps == IF "photos" \in DOMAIN x THEN PhotoStamps(x["photos"]) ELSE {}
    IN  IF "created_at_ts" \in DOMAIN x /\ x["created_at_ts"] # None
        THEN IF IsMillis(x["created_at_ts"])
             THEN x["created_at_ts"] ELSE 1000 * x["created_at_ts"]
        ELSE IF created_at.iso THEN created_at.instant
        ELSE IF stamps # {} THEN 1000 * Min(stamps)
        ELSE None

\* cli.py 206-208; the second component of an unknown date is datetime.max,
\* which is only ever compared with itself.
_sort_key(x) ==
    LET dt == _parse_created_at(x)
    IN  IF dt # None THEN <<0, dt>> ELSE <<1, 0>>

\* A comparison that also puts an element before those of equal key.
KeyLessOrEqual(a, b) == a[1] < b[1] \/ (a[1] = b[1] /\ a[2] <= b[2])

\* tuple comparison of the keys
KeyLess(a, b) == a[1] < b[1] \/ (a[1] = b[1] /\ a[2] < b[2])

\* list.sort(key=...) is stable: an element goes after those of equal key.
RECURSIVE InsertByKey(_, _)
InsertByKey(x, s) ==
    IF s = <<>> THEN <<x>>
    ELSE IF KeyLess(_sort_key(x), _sort_key(Head(s))) THEN <<x>> \o s
         ELSE <<Head(s)>> \o InsertByKey(x, Tail(s))

RECURSIVE SortByKey(_)
SortByKey(s) ==
    IF s = <<>> THEN <<>>
    ELSE InsertByKey(s[Len(s)], SortByKey(SubSeq(s, 1, Len(s) - 1)))

\* cli.py 205-212: sort and show the table
SortAndRender ==
    /\ pc = "enrich"
    /\ ei > Len(items_all)
    /\ enriched' = SortByKey(enriched)
    /\ Continue("select")
    /\ UNCHANGED <<laVars, idVars, csrf_list, ncsrf, ei, item, apiVars, logVars>>
    /\ UNCHANGED auxVars

\* ---------------------------------------------------------- main: selection
DigitChar(n) == <<"0", "1", "2", "3", "4", "5", "6", "7", "8", "9">>[n + 1]

\* What the operator can type at the selection prompt (already stripped)
IdxInputs ==
    {<<>>, <<"x">>, <<"-", "1">>} \cup {<<DigitChar(n)>> : n \in 0..(MaxItems + 1)}

YesNoAnswers == {"y", "yes", "n", ""}

prompt_yes_no(ans) == ans \in {"y", "yes"}

\* cli.py 214-231.  The table and the raw listing are not read after this
\* point; they leave the state with the selection.
\* A pick that counts the rows of the table from its end.
PickFromEnd(items, idx) == items[Len(items) + 1 - idx]

\* cli.py 226: enriched[idx - 1], the row idx of the table
Pick(items, idx) == items[idx]

SelectItem ==
    /\ pc = "select"
    /\ \E idx_raw \in IdxInputs, ans \in YesNoAnswers :
         LET idx == int_parse(idx_raw)
         IN  IF idx_raw = <<>> THEN
                 /\ Exit(0, "blank_selection")
                 /\ UNCHANGED <<item, asked>>
             ELSE IF ~idx.ok THEN
                 /\ Exit(0, "invalid_selection")
                 /\ UNCHANGED <<item, asked>>
             ELSE IF ~(1 <= idx.n /\ idx.n <= Len(enriched)) THEN
                 /\ Exit(0, "out_of_range")
                 /\ UNCHANGED <<item, asked>>
             ELSE
                 /\ item' = Pick(enriched, idx.n)
                 /\ asked' = Append(asked, [q |-> "repost", yes |-> prompt_yes_no(ans),
                                            at |-> idx.n])
                 /\ IF prompt_yes_no(ans)
                    THEN Continue(IF browser THEN "browser" ELSE "csrf_gate")
                    ELSE Exit(0, "declined")
    /\ enriched' = <<>>
    /\ items_all' = <<>>
    /\ UNCHANGED <<page, max_pages, per_page, requested, served, totals>>
    /\ UNCHANGED <<idVars, csrf_list, ncsrf, ei, apiVars, fills, writes>>
    /\ UNCHANGED auxVars

\* ---------------------------------------------------- main: browser attempt
\* What create_draft_via_browser does: raises (no backend, or an error in
\* the flow), or returns a result whose "ok" is false or true.
FillResults == {"raise", "not_ok", "ok"}

\* A browser attempt whose exception is not caught.
BrowserAttemptUncaught ==
    /\ pc = "browser"
    /\ ncsrf' = ncsrf + 1
    /\ \E res \in FillResults :
         /\ fills' = Append(fills, res = "ok")
         /\ CASE res = "ok"     -> Exit(0, "browser_saved")
              [] res = "not_ok" -> Continue("csrf_gate")
              [] res = "raise"  -> Exit(1, "uncaught_error")
    /\ UNCHANGED <<laVars, idVars, csrf_list, enriched, ei, item, apiVars, asked, writes>>
    /\ UNCHANGED auxVars

\* cli.py 233-252.  The token and the editor payload fetched here are used
\* for the form fill only; every exception is caught.
BrowserAttempt ==
    /\ pc = "browser"
    /\ ncsrf' = ncsrf + 1
    /\ \E res \in FillResults :
         /\ fills' = Append(fills, res = "ok")
         /\ IF res = "ok" THEN Exit(0, "browser_saved") ELSE Continue("csrf_gate")
    /\ UNCHANGED <<laVars, idVars, csrf_list, enriched, ei, item, apiVars, asked, writes>>
    /\ UNCHANGED auxVars

\* ------------------------------------------------------- main: CSRF gate
\* cli.py 254-258
CsrfGate ==
    /\ pc = "csrf_gate"
    /\ ncsrf' = ncsrf + 1
    /\ \E a \in CsrfAttempts :
         /\ csrf' = extract_csrf(a, ncsrf + 1)
         /\ IF csrf' = None THEN Exit(1, "csrf_unavailable") ELSE Continue("details")
    /\ UNCHANGED <<laVars, idVars, csrf_list, enriched, ei, item, logVars>>
    /\ UNCHANGED <<details, photos, pi, assigned_photos, upload_temp_uuid,
                   item_payload, outcomes>>
    /\ UNCHANGED auxVars

\* ------------------------------------------------- main: details and photos
PhotoLists == SeqsUpTo({PhotoUrl, PhotoBare}, MaxPhotos)

\* Bodies of GET /api/v2/item_upload/items/{id} for the selected listing
EditorBodies ==
    {<<>>, [photos |-> <<PhotoUrl>>], [item |-> [brand_id |-> 8, title |-> "e"]]}
    \cup {[item |-> [photos |-> ps]] : ps \in PhotoLists}

\* uuid.uuid4(): the session id this run draws
SessionIds == {7}

\* cli.py 266
Src(it, det) ==
    Merge(Merge(it, det), IF "item" \in DOMAIN det THEN det["item"] ELSE <<>>)

\* cli.py 289-295
SourcePhotos(det, src) ==
    IF "item" \in DOMAIN det /\ "photos" \in DOMAIN det["item"]
    THEN det["item"]["photos"]
    ELSE IF "photos" \in DOMAIN det THEN det["photos"]
    ELSE IF "photos" \in DOMAIN src THEN src["photos"]
    ELSE <<>>

\* cli.py 259-295
FetchDetails ==
    /\ pc = "details"
    /\ \E r \in Responses(EditorBodies), u \in SessionIds :
         /\ details' = r.body
         /\ photos' = SourcePhotos(r.body, Src(item, r.body))
         /\ upload_temp_uuid' = u
    /\ assigned_photos' = <<>>
    /\ pi' = 1
    /\ Continue("photos")
    /\ UNCHANGED <<laVars, idVars, enVars, item, csrf, item_payload, outcomes, logVars>>
    /\ UNCHANGED auxVars

\* The token of a CSRF request header stamped with the enrichment token.
StaleToken == csrf_list

\* cli.py 321, 388, 396: the token passed to the write operations
WriteToken == csrf

NoUrl == ""

\* cli.py 297-302; formats is a sequence of [k, url] entries in key order
_extract_url(p) ==
    IF "full_size_url" \in DOMAIN p /\ p["full_size_url"] # NoUrl THEN p["full_size_url"]
    ELSE IF "url" \in DOMAIN p /\ p["url"] # NoUrl THEN p["url"]
    ELSE IF "image_url" \in DOMAIN p /\ p["image_url"] # NoUrl THEN p["image_url"]
    ELSE IF "formats" \in DOMAIN p
         THEN LET fs == p["formats"]
                  withUrl == {j \in 1..Len(fs) : fs[j].url # NoUrl}
              IN  IF withUrl = {} THEN NoUrl ELSE fs[Min(withUrl)].url
         ELSE NoUrl

\* What can happen to a photo that has a URL
PhotoEvents == {"download_error", "upload_http_error", "upload_error", "uploaded"}

\* Bodies of POST /api/v2/photos for the file of source photo i
UploadBodies(i) == {<<>>, [id |-> i], [id |-> i, orientation |-> 1]}

\* An assignment that does not test the response for an id.
AssignmentUnchecked(up) ==
    <<[id |-> Get(up, "id"),
       orientation |-> IF "orientation" \in DOMAIN up THEN up["orientation"] ELSE 0]>>

\* cli.py 329-331
Assignment(up) ==
    IF "id" \in DOMAIN up /\ up["id"] # 0
    THEN <<[id |-> up["id"],
            orientation |-> IF "orientation" \in DOMAIN up
                            THEN up["orientation"] ELSE 0]>>
    ELSE <<>>

\* cli.py 308-333 for one source photo
ProcessPhoto ==
    /\ pc = "photos"
    /\ pi <= Len(photos)
    /\ IF _extract_url(photos[pi]) = NoUrl
       THEN /\ outcomes' = Append(outcomes, [done |-> FALSE, up |-> <<>>])
            /\ UNCHANGED <<assigned_photos, writes>>
       ELSE \E ev \in PhotoEvents, up \in UploadBodies(pi) :
              LET body == IF ev = "uploaded" THEN up ELSE <<>>
              IN  /\ outcomes' = Append(outcomes, [done |-> ev = "uploaded", up |-> body])
                  /\ writes' = IF ev = "download_error" THEN writes
                               ELSE Append(writes,
                                      [op |-> "upload_photo", token |-> WriteToken,
                                       temp_uuid |-> upload_temp_uuid,
                                       file |-> pi, ok |-> ev = "uploaded"])
                  /\ assigned_photos' = assigned_photos \o Assignment(body)
    /\ pi' = pi + 1
    /\ UNCHANGED <<ctlVars, laVars, idVars, enVars, item, csrf, details, photos,
                   upload_temp_uuid, item_payload, fills, asked>>
    /\ UNCHANGED auxVars

\* ------------------------------------------------------ main: the payload
PromptKeys == <<"brand_id", "size_id", "catalog_id", "status_id">>

\* What the operator can type at a missing-field prompt (already stripped)
PromptInputs == {<<>>, <<"5">>, <<"x">>}

\* cli.py 336-366, the members the later steps read
BasePayload(src, assigned, uuid) ==
    [item |-> [temp_uuid |-> uuid,
               title |-> IF "title" \in DOMAIN src THEN src["title"] ELSE "",
               brand_id |-> Get(src, "brand_id"),
               size_id |-> Get(src, "size_id"),
               catalog_id |-> Get(src, "catalog_id"),
               status_id |-> IF Get(src, "status_id") \in {None, 0}
                             THEN 1 ELSE src["status_id"],
               assigned_photos |-> assigned],
     upload_session_id |-> uuid]

\* cli.py 375-382: the keys that are prompted for
Prompted(payload) ==
    {j \in 1..Len(PromptKeys) : payload["item"][PromptKeys[j]] = None}

\* cli.py 375-382: the payload after the answers
Answered(payload, answers) ==
    [payload EXCEPT !["item"] =
        [k \in DOMAIN payload["item"] |->
            IF \E j \in Prompted(payload) :
                  PromptKeys[j] = k /\ int_parse(answers[j]).ok
            THEN int_parse(answers[CHOOSE j \in Prompted(payload) : PromptKeys[j] = k]).n
            ELSE payload["item"][k]]]

\* cli.py 336-382
BuildPayload ==
    /\ pc = "photos"
    /\ pi > Len(photos)
    /\ \E answers \in [1..Len(PromptKeys) -> PromptInputs] :
         LET base == BasePayload(Src(item, details), assigned_photos, upload_temp_uuid)
         IN  /\ item_payload' = Answered(base, answers)
             /\ asked' = asked \o
                   [n \in 1..Cardinality(Prompted(base)) |->
                      [q |-> PromptKeys[CHOOSE j \in Prompted(base) :
                                Cardinality({m \in Prompted(base) : m <= j}) = n],
                       yes |-> FALSE]]
    /\ Continue("delete")
    /\ UNCHANGED <<laVars, idVars, enVars, item, csrf, details, photos, pi,
                   assigned_photos, upload_temp_uuid, outcomes, fills, writes>>
    /\ UNCHANGED auxVars

\* ------------------------------------------------- main: delete and create
\* A delete prompt that is shown whatever the payload holds.
AlwaysOffersDelete(payload) == TRUE

\* cli.py 385
OffersDelete(payload) == payload["item"]["assigned_photos"] # <<>>

\* A delete step that takes a successful deletion for the end of the run.
DeleteOriginalEndsRun ==
    /\ pc = "delete"
    /\ IF OffersDelete(item_payload)
       THEN \E ans \in YesNoAnswers, ok \in BOOLEAN :
              /\ asked' = Append(asked, [q |-> "delete", yes |-> prompt_yes_no(ans)])
              /\ writes' = IF prompt_yes_no(ans)
                           THEN Append(writes,
                                  [op |-> "delete_item", token |-> WriteToken,
                                   item_id |-> item["id"], ok |-> ok])
                           ELSE writes
              /\ IF prompt_yes_no(ans) /\ ok
                 THEN Exit(0, "deleted") ELSE Continue("create")
       ELSE /\ UNCHANGED <<asked, writes>>
            /\ Continue("create")
    /\ UNCHANGED <<laVars, idVars, enVars, item, apiVars, fills>>
    /\ UNCHANGED auxVars

\* A delete step whose exception is not caught.
DeleteOriginalUncaught ==
    /\ pc = "delete"
    /\ IF OffersDelete(item_payload)
       THEN \E ans \in YesNoAnswers, ok \in BOOLEAN :
              /\ asked' = Append(asked, [q |-> "delete", yes |-> prompt_yes_no(ans)])
              /\ writes' = IF prompt_yes_no(ans)
                           THEN Append(writes,
                                  [op |-> "delete_item", token |-> WriteToken,
                                   item_id |-> item["id"], ok |-> ok])
                           ELSE writes
              /\ IF prompt_yes_no(ans) /\ ~ok
                 THEN Exit(1, "uncaught_error") ELSE Continue("create")
       ELSE /\ UNCHANGED <<asked, writes>>
            /\ Continue("create")
    /\ UNCHANGED <<laVars, idVars, enVars, item, apiVars, fills>>
    /\ UNCHANGED auxVars

\* cli.py 384-393: the prompt, the request, and the except clause that lets
\* the run go on
DeleteOriginal ==
    /\ pc = "delete"
    /\ IF OffersDelete(item_payload)
       THEN \E ans \in YesNoAnswers, ok \in BOOLEAN :
              /\ asked' = Append(asked, [q |-> "delete", yes |-> prompt_yes_no(ans)])
              /\ writes' = IF prompt_yes_no(ans)
                           THEN Append(writes,
                                  [op |-> "delete_item", token |-> WriteToken,
                                   item_id |-> item["id"], ok |-> ok])
                           ELSE writes
       ELSE UNCHANGED <<asked, writes>>
    /\ Continue("create")
    /\ UNCHANGED <<laVars, idVars, enVars, item, apiVars, fills>>
    /\ UNCHANGED auxVars

\* A creation failure that ends the run like the other fatal errors.
CreateStatusOne(ok) == IF ok THEN 0 ELSE 1

\* cli.py 395-401: the exit status after create_item
CreateStatus(ok) == IF ok THEN 0 ELSE 2

\* cli.py 395-401
CreateItem ==
    /\ pc = "create"
    /\ \E ok \in BOOLEAN :
         /\ writes' = Append(writes,
                        [op |-> "create_item", token |-> WriteToken,
                         payload |-> item_payload, ok |-> ok])
         /\ Exit(CreateStatus(ok), IF ok THEN "created" ELSE "create_failed")
    /\ UNCHANGED <<laVars, idVars, enVars, item, apiVars, fills, asked>>
    /\ UNCHANGED auxVars

\* --------------------------------------------------------- specifications
\* Cookie jars of the runs of main
RunJars == {
    <<>>,
    [v_uid |-> <<"0">>],
    [v_uid |-> <<"4", "2">>] }

\* main, from the parsed curl text to the exit
Init ==
    /\ pc = "start"
    /\ exit_code = None
    /\ ending = ""
    /\ page = 1
    /\ items_all = <<>>
    /\ max_pages = None
    /\ per_page = None
    /\ requested = <<>>
    /\ served = <<>>
    /\ totals = {}
    /\ cookies \in RunJars
    /\ jwt = TRUE
    /\ user_id = None
    /\ browser \in BOOLEAN
    /\ Idle
    /\ AuxIdle

Next ==
    \/ IdentityGate
    \/ ListPageOk
    \/ ListPageHttpError
    \/ ListRaised
    \/ ListReturned
    \/ EnrichItem
    \/ SortAndRender
    \/ SelectItem
    \/ BrowserAttempt
    \/ CsrfGate
    \/ FetchDetails
    \/ ProcessPhoto
    \/ BuildPayload
    \/ DeleteOriginal
    \/ CreateItem

Spec == Init /\ [][Next]_vars

\* get_user_id and the identity gate of main, on every cookie jar
InitIdentity ==
    /\ pc = "start"
    /\ exit_code = None
    /\ ending = ""
    /\ page = 1
    /\ items_all = <<>>
    /\ max_pages = None
    /\ per_page = None
    /\ requested = <<>>
    /\ served = <<>>
    /\ totals = {}
    /\ cookies \in CookieJars
    /\ jwt \in BOOLEAN
    /\ user_id = None
    /\ browser \in BOOLEAN
    /\ Idle
    /\ AuxIdle

NextIdentity == IdentityGate

SpecIdentity == InitIdentity /\ [][NextIdentity]_vars

\* wardrobe_items_all on its own, with any max_pages
InitListAll ==
    /\ pc = "list"
    /\ exit_code = None
    /\ ending = ""
    /\ page = 1
    /\ items_all = <<>>
    /\ max_pages \in {None} \cup (0..MaxPage)
    /\ per_page \in 1..MaxPerPage
    /\ requested = <<>>
    /\ served = <<>>
    /\ totals = {}
    /\ cookies = [v_uid |-> <<"4", "2">>]
    /\ jwt = TRUE
    /\ user_id = get_user_id(cookies, jwt)
    /\ browser = FALSE
    /\ Idle
    /\ AuxIdle

NextListAll == ListPageOk \/ ListPageHttpError

SpecListAll == InitListAll /\ [][NextListAll]_vars

\* ------------------------------------------------- helpers outside main
\* The state of main in the specifications of the single helpers.
Parked ==
    /\ exit_code = None
    /\ ending = ""
    /\ page = 1
    /\ items_all = <<>>
    /\ max_pages = None
    /\ per_page = None
    /\ requested = <<>>
    /\ served = <<>>
    /\ totals = {}
    /\ jwt = TRUE
    /\ user_id = None
    /\ browser = FALSE
    /\ Idle

\* ------------------------------------------- extract_csrf, step by step
\* What the browser strategy meets: a token in the page source, no token
\* (None or an empty string), or an exception of the driver.
BrowserOutcomes == {"token", "none", "raise"}

\* What the plain-HTTP fallback meets
HttpOutcomes == {"token", "no_match", "status_error", "network_error"}

\* The tokens a page can carry
PageTokens == {1, 2}

Consult(by, met, tok) ==
    Append(consulted, [by |-> by, met |-> met,
                       tok |-> IF met = "token" THEN tok ELSE None])

UNCHANGED_BUT_CSRF ==
    UNCHANGED <<exit_code, ending, laVars, idVars, enVars, item, apiVars, logVars,
                capability, calls, waitVars>>

\* browser_csrf.py 73-79
BrowserStrategy ==
    /\ pc = "csrf_call"
    /\ IF ~capability
       THEN /\ pc' = "csrf_fallback"
            /\ UNCHANGED <<consulted, csrf_ret>>
       ELSE \E met \in BrowserOutcomes, tok \in PageTokens :
              /\ consulted' = Consult("browser", met, tok)
              /\ IF met = "token"
                 THEN csrf_ret' = tok /\ pc' = "csrf_returned"
                 ELSE csrf_ret' = csrf_ret /\ pc' = "csrf_fallback"
    /\ UNCHANGED_BUT_CSRF

\* A fallback that lets the HTTP status error of raise_for_status escape.
HttpFallbackRaising ==
    /\ pc = "csrf_fallback"
    /\ \E met \in HttpOutcomes, tok \in PageTokens :
         /\ consulted' = Consult("http", met, tok)
         /\ csrf_ret' = IF met = "token" THEN tok ELSE None
         /\ pc' = IF met = "status_error" THEN "csrf_raised" ELSE "csrf_returned"
    /\ UNCHANGED_BUT_CSRF

\* browser_csrf.py 81 and 27-47
HttpFallback ==
    /\ pc = "csrf_fallback"
    /\ \E met \in HttpOutcomes, tok \in PageTokens :
         /\ consulted' = Consult("http", met, tok)
         /\ csrf_ret' = IF met = "token" THEN tok ELSE None
    /\ pc' = "csrf_returned"
    /\ UNCHANGED_BUT_CSRF

\* extract_csrf on every cookie jar, with and without the browser capability
InitCsrf ==
    /\ pc = "csrf_call"
    /\ cookies \in CookieJars
    /\ Parked
    /\ capability \in BOOLEAN
    /\ consulted = <<>>
    /\ csrf_ret = None
    /\ calls = <<>>
    /\ timeout = 0
    /\ now = 0
    /\ end = None
    /\ polls = <<>>
    /\ login_cookies = <<>>

NextCsrf == BrowserStrategy \/ HttpFallback

SpecCsrf == InitCsrf /\ [][NextCsrf]_vars

\* ---------------------------------------------- the helpers, one call each
\* No helper has been called yet; main does not run.
InitPure ==
    /\ pc = "parked"
    /\ cookies = <<>>
    /\ Parked
    /\ AuxIdle

\* One call of a helper: its argument and what it returned.
Call(arg, ret) ==
    /\ calls' = Append(calls, [arg |-> arg, ret |-> ret])
    /\ UNCHANGED <<ctlVars, laVars, idVars, enVars, item, apiVars, logVars,
                   csrfVars, waitVars>>

\* ----------------------------------------------------- enriched.sort(key)
MaxSort == 3

\* Listings by what is known of their creation date: nothing, a timestamp in
\* seconds, one in milliseconds, an ISO string, a photo timestamp, a string
\* that is no date.
SortItems == {
    [id |-> 1],
    [id |-> 2, created_at_ts |-> 5],
    [id |-> 3, created_at_ts |-> 3000],
    [id |-> 4, created_at |-> DateOk],
    [id |-> 5, photos |-> <<PhotoUrl>>],
    [id |-> 6, created_at |-> DateBad] }

\* cli.py 210 on any list of listings
SortCall ==
    /\ calls = <<>>
    /\ \E s \in SeqsUpTo(SortItems, MaxSort) : Call(s, SortByKey(s))

SpecSort == InitPure /\ [][SortCall]_vars

\* ------------------------------------------------------------- parse_curl
\* A curl text is a sequence of pieces: the keyword, the flags, the quotes,
\* the separators, a run of whitespace, or a run of other characters.  No
\* regular expression of parse_curl tells two characters of one piece apart.
Ws == " "
SQ == "'"
DQ == "\""

Range(s) == {s[k] : k \in 1..Len(s)}

Max(S) == CHOOSE m \in S : \A n \in S : n <= m

\* First index from i on whose piece is in S (is not in S), 0 when none.
First(s, i, S) ==
    LET K == {k \in i..Len(s) : s[k] \in S}
    IN  IF K = {} THEN 0 ELSE Min(K)

FirstNot(s, i, S) ==
    LET K == {k \in i..Len(s) : s[k] \notin S}
    IN  IF K = {} THEN 0 ELSE Min(K)

\* str.strip()
strip(s) ==
    LET K == {k \in 1..Len(s) : s[k] # Ws}
    IN  IF K = {} THEN <<>> ELSE SubSeq(s, Min(K), Max(K))

\* str.lower(): the pieces with capitals
lower(s) ==
    [k \in 1..Len(s) |-> CASE s[k] = "Cookie" -> "cookie"
                           [] s[k] = "-H" -> "-h"
                           [] OTHER -> s[k]]

\* str.split(sep)
RECURSIVE split(_, _)
split(s, sep) ==
    LET k == First(s, 1, {sep})
    IN  IF k = 0 THEN <<s>>
        ELSE <<SubSeq(s, 1, k - 1)>> \o split(SubSeq(s, k + 1, Len(s)), sep)

\* d[k] = v
Put(d, k, v) == [x \in DOMAIN d \cup {k} |-> IF x = k THEN v ELSE d[x]]

NoMatch == [ok |-> FALSE, a |-> <<>>, b |-> <<>>, stop |-> 0]

\* curl_parser.py 20: the three alternatives at one position of the keyword
UrlAt(s, i) ==
    IF s[i] # "curl" \/ i + 1 > Len(s) \/ s[i + 1] # Ws THEN NoMatch
    ELSE LET j == FirstNot(s, i + 1, {Ws})
         IN  IF j = 0 THEN NoMatch
             ELSE LET k == IF s[j] \in {SQ, DQ} THEN First(s, j + 1, {s[j]}) ELSE 0
                      e == First(s, j, {Ws})
                  IN  IF k > j + 1
                      THEN [ok |-> TRUE, a |-> SubSeq(s, j + 1, k - 1), b |-> <<>>, stop |-> k]
                      ELSE [ok |-> TRUE,
                            a |-> SubSeq(s, j, IF e = 0 THEN Len(s) ELSE e - 1),
                            b |-> <<>>, stop |-> 0]

\* curl_parser.py 28: -H\s+'([^:]+):\s*([^']*)' at one position
HeaderAt(s, i) ==
    IF s[i] # "-H" \/ i + 1 > Len(s) \/ s[i + 1] # Ws THEN NoMatch
    ELSE LET j == FirstNot(s, i + 1, {Ws})
         IN  IF j = 0 \/ s[j] # SQ THEN NoMatch
             ELSE LET c == First(s, j + 1, {":"})
                      q == IF c = 0 THEN 0 ELSE First(s, c + 1, {SQ})
                  IN  IF c = 0 \/ c = j + 1 \/ q = 0 THEN NoMatch
                      ELSE [ok |-> TRUE, a |-> SubSeq(s, j + 1, c - 1),
                            b |-> SubSeq(s, c + 1, q - 1), stop |-> q]

\* curl_parser.py 27-29: re.findall from position i on, into the map h
RECURSIVE Headers(_, _, _)
Headers(s, i, h) ==
    IF i > Len(s) THEN h
    ELSE LET m == HeaderAt(s, i)
         IN  IF m.ok THEN Headers(s, m.stop + 1, Put(h, lower(strip(m.a)), strip(m.b)))
             ELSE Headers(s, i + 1, h)

\* curl_parser.py 33: -b\s+'([^']+)'|-b\s+"([^"]+)" at one position
JarAt(s, i) ==
    IF s[i] # "-b" \/ i + 1 > Len(s) \/ s[i + 1] # Ws THEN NoMatch
    ELSE LET j == FirstNot(s, i + 1, {Ws})
         IN  IF j = 0 \/ s[j] \notin {SQ, DQ} THEN NoMatch
             ELSE LET k == First(s, j + 1, {s[j]})
                  IN  IF k > j + 1
                      THEN [ok |-> TRUE, a |-> SubSeq(s, j + 1, k - 1), b |-> <<>>, stop |-> k]
                      ELSE NoMatch

\* re.search for the URL: the match at the leftmost position that has one
SearchUrl(s) ==
    LET K == {i \in 1..Len(s) : UrlAt(s, i).ok}
    IN  IF K = {} THEN NoMatch ELSE UrlAt(s, Min(K))

\* re.search for the -b argument
SearchJar(s) ==
    LET K == {i \in 1..Len(s) : JarAt(s, i).ok}
    IN  IF K = {} THEN NoMatch ELSE JarAt(s, Min(K))

\* curl_parser.py 36-39 and 48-51: the parts with '=' go into the map,
\* by assignment or by setdefault
RECURSIVE FoldCookies(_, _, _)
FoldCookies(parts, d, assign) ==
    IF parts = <<>> THEN d
    ELSE LET part == Head(parts)
             k == First(part, 1, {"="})
             name == strip(SubSeq(part, 1, k - 1))
             val == strip(SubSeq(part, k + 1, Len(part)))
         IN  FoldCookies(Tail(parts),
                         IF k = 0 \/ (~assign /\ name \in DOMAIN d) THEN d
                         ELSE Put(d, name, val),
                         assign)

\* A header merge that assigns, as the -b loop does.
MergeHeaderCookiesAssigning(d, cookie_hdr) ==
    FoldCookies(split(cookie_hdr, ";"), d, TRUE)

\* curl_parser.py 47-51
MergeHeaderCookies(d, cookie_hdr) ==
    FoldCookies(split(cookie_hdr, ";"), d, FALSE)

\* urllib.parse.urlparse raises ValueError for a netloc with an unclosed
\* bracket
urlparse_raises(url) == "//[x" \in Range(url)

ParseError == [ok |-> FALSE, url |-> <<>>, headers |-> <<>>, cookies |-> <<>>,
               user_agent |-> <<>>]

\* curl_parser.py 9-54 on a text without line continuations
parse_curl(curl_text) ==
    LET text == strip(curl_text)
        m_url == SearchUrl(text)
        headers == Headers(text, 1, <<>>)
        b_match == SearchJar(text)
        from_b == IF b_match.ok THEN FoldCookies(split(b_match.a, ";"), <<>>, TRUE)
                  ELSE <<>>
        cookie_hdr == IF <<"cookie">> \in DOMAIN headers THEN headers[<<"cookie">>]
                      ELSE <<>>
    IN  IF ~m_url.ok \/ urlparse_raises(m_url.a) THEN ParseError
        ELSE [ok |-> TRUE, url |-> m_url.a, headers |-> headers,
              cookies |-> IF cookie_hdr # <<>>
                          THEN MergeHeaderCookies(from_b, cookie_hdr) ELSE from_b,
              user_agent |-> IF <<"user-agent">> \in DOMAIN headers
                             THEN headers[<<"user-agent">>] ELSE <<>>]

\* The curl texts parsed: a head (the keyword and the URL) and fragments.
\* Every fragment carries, next to its text, what it says when read by eye:
\* its header key and value, and its cookie pairs.
MaxFrags == 3

UrlPieces == <<"https", ":", "//x/items/new">>

CurlHeads == {
    [kind |-> "single", text |-> <<"curl", Ws, SQ>> \o UrlPieces \o <<SQ>>],
    [kind |-> "double", text |-> <<"curl", Ws, DQ>> \o UrlPieces \o <<DQ>>],
    [kind |-> "bare", text |-> <<"curl", Ws>> \o UrlPieces],
    [kind |-> "bracket", text |-> <<"curl", Ws, SQ, "https", ":", "//[x", SQ>>],
    [kind |-> "no_url", text |-> <<"curl">>],
    [kind |-> "no_keyword", text |-> <<"wget", Ws, SQ>> \o UrlPieces \o <<SQ>>] }

CurlFrags == {
    \* -H 'x: 1'
    [kind |-> "header",
     text |-> <<"-H", Ws, SQ, "x", ":", Ws, "1", SQ>>,
     key |-> <<"x">>, value |-> <<"1">>, pairs |-> <<>>],
    \* -H 'cookie: a=1; b=2'
    [kind |-> "cookie_header",
     text |-> <<"-H", Ws, SQ, "cookie", ":", Ws, "a", "=", "1", ";", Ws,
                "b", "=", "2", SQ>>,
     key |-> <<"cookie">>,
     value |-> <<"a", "=", "1", ";", Ws, "b", "=", "2">>,
     pairs |-> << <<"a", "1">>, <<"b", "2">> >>],
    \* -H 'Cookie: a=1; bad; c=3'
    [kind |-> "cookie_header",
     text |-> <<"-H", Ws, SQ, "Cookie", ":", Ws, "a", "=", "1", ";", Ws, "bad",
                ";", Ws, "c", "=", "3", SQ>>,
     key |-> <<"cookie">>,
     value |-> <<"a", "=", "1", ";", Ws, "bad", ";", Ws, "c", "=", "3">>,
     pairs |-> << <<"a", "1">>, <<"c", "3">> >>],
    \* -b 'a=9; d=4'
    [kind |-> "jar",
     text |-> <<"-b", Ws, SQ, "a", "=", "9", ";", Ws, "d", "=", "4", SQ>>,
     key |-> <<>>, value |-> <<>>,
     pairs |-> << <<"a", "9">>, <<"d", "4">> >>],
    \* -b "a=9; nope; d=4"
    [kind |-> "jar",
     text |-> <<"-b", Ws, DQ, "a", "=", "9", ";", Ws, "nope", ";", Ws,
                "d", "=", "4", DQ>>,
     key |-> <<>>, value |-> <<>>,
     pairs |-> << <<"a", "9">>, <<"d", "4">> >>],
    \* -H 'y: 2   (the closing quote is missing)
    [kind |-> "unclosed_header",
     text |-> <<"-H", Ws, SQ, "y", ":", Ws, "2">>,
     key |-> <<>>, value |-> <<>>, pairs |-> <<>>] }

CurlText(head, frags) ==
    head.text \o Flatten([i \in 1..Len(frags) |-> <<Ws>> \o frags[i].text])

\* parse_curl on one text
CurlCall ==
    /\ calls = <<>>
    /\ \E head \in CurlHeads, frags \in SeqsUpTo(CurlFrags, MaxFrags) :
         Call([head |-> head, frags |-> frags], parse_curl(CurlText(head, frags)))

SpecCurl == InitPure /\ [][CurlCall]_vars

\* ---------------------------------------------------- photo URL resolution
TopUrlKeys == <<"full_size_url", "url", "image_url", "original_url", "original">>

FormatKeys == <<"xxl", "xl", "l", "m", "original">>

\* browser_reposter.py 141-151 for one photo entry; NoUrl when nothing
\* resolves
NormalizerUrl(p) ==
    LET top == {j \in 1..Len(TopUrlKeys) :
                   TopUrlKeys[j] \in DOMAIN p /\ p[TopUrlKeys[j]] # NoUrl}
        fs == IF "formats" \in DOMAIN p THEN p["formats"] ELSE <<>>
        UrlIn(key) == LET K == {n \in 1..Len(fs) : fs[n].k = key}
                      IN  IF K = {} THEN NoUrl ELSE fs[Max(K)].url
        fmt == {j \in 1..Len(FormatKeys) : UrlIn(FormatKeys[j]) # NoUrl}
    IN  IF top # {} THEN p[TopUrlKeys[Min(top)]]
        ELSE IF fmt # {} THEN UrlIn(FormatKeys[Min(fmt)])
        ELSE NoUrl

\* browser_reposter.py 135-154
_extract_photo_urls(x) ==
    LET ps == IF "photos" \in DOMAIN x /\ x["photos"] # <<>> THEN x["photos"]
              ELSE IF "item_photos" \in DOMAIN x THEN x["item_photos"]
              ELSE <<>>
        Resolves(p) == NormalizerUrl(p) # NoUrl
        kept == SelectSeq(ps, Resolves)
    IN  [j \in 1..Len(kept) |-> NormalizerUrl(kept[j])]

\* The url every top-level field and every format of the photo entries has
UrlOf(key) ==
    CASE key = "full_size_url" -> "F.jpg"
      [] key = "url" -> "U.jpg"
      [] key = "image_url" -> "I.jpg"
      [] key = "original_url" -> "OU.jpg"
      [] key = "original" -> "O.jpg"
      [] key = "xxl" -> "XXL.jpg"
      [] key = "xl" -> "XL.jpg"
      [] key = "l" -> "L.jpg"
      [] key = "m" -> "M.jpg"

Format(key) == [k |-> key, url |-> UrlOf(key)]

\* formats maps, as the sequence of their entries in key order
FormatMaps == {
    <<Format("l"), Format("original")>>,
    <<Format("original"), Format("l")>>,
    <<Format("m"), Format("xxl")>>,
    <<Format("xl")>> }

PhotoEntries ==
    LET tops == {[key \in S |-> UrlOf(key)] : S \in SUBSET Range(TopUrlKeys)}
    IN  tops \cup {Merge(t, [formats |-> fs]) : t \in tops, fs \in FormatMaps}

\* One photo entry resolved on the API path and by the normalizer
PhotoUrlCall ==
    /\ calls = <<>>
    /\ \E p \in PhotoEntries :
         Call(p, [api |-> _extract_url(p),
                  normalizer |-> _extract_photo_urls([photos |-> <<p>>])])

SpecPhotoUrl == InitPure /\ [][PhotoUrlCall]_vars

\* ------------------------------------------------- price normalization
\* JSON values of the price fields: None, a number (in hundredths), a string
\* (its characters), or the nested price object with its amount.
JNone == [t |-> "none"]

JNum(n) == [t |-> "num", n |-> n]

JStr(s) == [t |-> "str", s |-> s]

JPrice(amount) == [t |-> "dict", amount |-> amount]

\* A string used as it is, without replacing the comma.
KeepComma(s) == s

\* browser_reposter.py 171: amount.replace(',', '.')
ReplaceComma(s) == [k \in 1..Len(s) |-> IF s[k] = "," THEN "." ELSE s[k]]

AllDigits(s) == \A k \in 1..Len(s) : s[k] \in Digits

DigitsValue(s) == IF s = <<>> THEN 0 ELSE int_digits(s)

\* float(s) for decimal texts of at most two decimals, in hundredths;
\* ok is FALSE where float raises ValueError
float(s) ==
    LET d == First(s, 1, {"."})
        ip == IF d = 0 THEN s ELSE SubSeq(s, 1, d - 1)
        fp == IF d = 0 THEN <<>> ELSE SubSeq(s, d + 1, Len(s))
    IN  IF (ip = <<>> /\ fp = <<>>) \/ ~AllDigits(ip) \/ ~AllDigits(fp) \/ Len(fp) > 2
        THEN [ok |-> FALSE, n |-> 0]
        ELSE [ok |-> TRUE,
              n |-> 100 * DigitsValue(ip)
                    + (IF Len(fp) = 1 THEN 10 * DigitsValue(fp) ELSE DigitsValue(fp))]

\* src.get(key)
JGet(src, key) == IF key \in DOMAIN src THEN src[key] ELSE JNone

\* browser_reposter.py 160-173 and 179: the price of the normalized record
NormalizedPrice(src) ==
    LET p == JGet(src, "price")
        first == JGet(src, "price_numeric")
        amount == IF first # JNone THEN first
                  ELSE IF p.t = "dict" THEN p.amount
                  ELSE IF p.t = "num" THEN p
                  ELSE JNone
        parsed == IF amount.t = "str" THEN float(ReplaceComma(amount.s))
                  ELSE [ok |-> FALSE, n |-> 0]
    IN  IF amount.t = "str"
        THEN IF parsed.ok THEN JNum(parsed.n) ELSE JNone
        ELSE IF amount.t = "num" THEN amount ELSE JNone

\* The amounts a price field can hold
Amounts == {
    JNum(1250), JNum(0),
    JStr(<<"1", "2", ",", "5", "0">>), JStr(<<"1", "2", ".", "5">>), JStr(<<"7">>),
    JStr(<<"a", "b", "c">>), JStr(<<>>) }

PriceSources ==
    LET firsts == {<<>>} \cup {[price_numeric |-> a] : a \in Amounts}
        prices == {<<>>} \cup {[price |-> a] : a \in Amounts}
                  \cup {[price |-> JPrice(a)] : a \in Amounts \cup {JNone}}
    IN  {Merge(f, p) : f \in firsts, p \in prices}

\* collect_item_data on one source record, its price
PriceCall ==
    /\ calls = <<>>
    /\ \E src \in PriceSources : Call(src, NormalizedPrice(src))

SpecPrice == InitPure /\ [][PriceCall]_vars

\* ------------------------------------------------- numeric creation stamps
MaxSec == 4

\* Seconds values, and the same instants in milliseconds
SecondStamps == (1..MaxSec) \cup {MsThreshold - 1, MsThreshold}

Stamps == SecondStamps \cup {1000 * s : s \in SecondStamps}

\* _parse_created_at on listings with a numeric created_at_ts, twice
DateCall ==
    /\ Len(calls) < 2
    /\ \E ts \in Stamps :
         Call([id |-> 1, created_at_ts |-> ts],
              _parse_created_at([id |-> 1, created_at_ts |-> ts]))

SpecDate == InitPure /\ [][DateCall]_vars

\* ------------------------------------- _wait_for_login_and_cookies
MaxWait == 2

MaxJar == 2

Timeouts == -1..MaxWait

\* What driver.get_cookies() hands back: entries with a name and a value,
\* either of which may be missing
CookieEntries ==
    {[name |-> "v_uid", value |-> 1],
     [name |-> "access_token_web", value |-> 2],
     [name |-> "anon_id", value |-> 3],
     [name |-> "v_uid", value |-> None],
     [name |-> "", value |-> 4]}

\* A read of the driver's cookies: it raises, or gives a list of entries
JarReads ==
    {[raises |-> TRUE, cs |-> <<>>]}
        \cup {[raises |-> FALSE, cs |-> cs] : cs \in SeqsUpTo(CookieEntries, MaxJar)}

WwwHost == "https://www.vinted.fr"

PageUrls ==
    {<<WwwHost, "/member/", "12">>,
     <<WwwHost, "/member/", "12", "-anna?tab=closet">>,
     <<WwwHost, "/member/", "signup/select_type">>,
     <<WwwHost, "/member/">>,
     <<WwwHost, "/items/", "12">>,
     <<>>}

\* A read of driver.current_url: it raises, gives None, or gives a string
UrlReads ==
    {[raises |-> TRUE, none |-> FALSE, s |-> <<>>],
     [raises |-> FALSE, none |-> TRUE, s |-> <<>>]}
        \cup {[raises |-> FALSE, none |-> FALSE, s |-> u] : u \in PageUrls}

RECURSIVE CollectFrom(_, _)
CollectFrom(cs, out) ==
    IF cs = <<>> THEN out
    ELSE LET c == Head(cs)
         IN  CollectFrom(Tail(cs),
                 IF c.name # "" /\ c.value # None
                 THEN Put(out, c.name, c.value) ELSE out)

_collect_cookie_dict(read) ==
    IF read.raises THEN <<>> ELSE CollectFrom(read.cs, <<>>)

\* A pattern that takes any page below /member/ for the profile.
on_member_page(cur) ==
    /\ Len(cur) >= 2
    /\ cur[1] = WwwHost
    /\ cur[2] = "/member/"

\* ^https://www\.vinted\.fr/member/\d+
on_profile(cur) ==
    /\ Len(cur) >= 3
    /\ cur[1] = WwwHost
    /\ cur[2] = "/member/"
    /\ cur[3] \in {"12"}

UNCHANGED_BUT_WAIT ==
    UNCHANGED <<exit_code, ending, laVars, idVars, enVars, item, apiVars, logVars,
                csrfVars, calls, timeout>>

WaitStart ==
    /\ pc = "wait_call"
    /\ end' = IF timeout <= 0 THEN None ELSE now + timeout
    /\ pc' = "wait_head"
    /\ UNCHANGED <<now, polls, login_cookies>>
    /\ UNCHANGED_BUT_WAIT

LoopHead ==
    /\ pc = "wait_head"
    /\ pc' = IF end # None /\ now >= end THEN "wait_break" ELSE "wait_poll"
    /\ UNCHANGED <<now, end, polls, login_cookies>>
    /\ UNCHANGED_BUT_WAIT

\* One pass of the try block.  A read of the URL that raises, and a None
\* URL (re.match raises on it), are swallowed by the except clause.
Poll ==
    /\ pc = "wait_poll"
    /\ \E u \in UrlReads, r \in JarReads :
         LET collected == _collect_cookie_dict(r)
             logged_in == \/ "v_uid" \in DOMAIN collected
                          \/ "access_token_web" \in DOMAIN collected
             raised    == u.raises \/ u.none
         IN  /\ polls' = <<[url |-> u, jar |-> r]>>
             /\ IF ~raised /\ logged_in /\ on_profile(u.s)
                THEN login_cookies' = collected /\ pc' = "wait_returned"
                ELSE login_cookies' = login_cookies /\ pc' = "wait_sleep"
    /\ UNCHANGED <<now, end>>
    /\ UNCHANGED_BUT_WAIT

\* time.sleep(1.0); the clock stops counting once every deadline has passed,
\* and what the pass has read is dead from here on
Sleep ==
    /\ pc = "wait_sleep"
    /\ now' = IF now > MaxWait THEN now ELSE now + 1
    /\ polls' = <<>>
    /\ pc' = "wait_head"
    /\ UNCHANGED <<end, login_cookies>>
    /\ UNCHANGED_BUT_WAIT

\* The return after the loop
ReturnAfterTimeout ==
    /\ pc = "wait_break"
    /\ \E r \in JarReads : login_cookies' = _collect_cookie_dict(r)
    /\ pc' = "wait_expired"
    /\ UNCHANGED <<now, end, polls>>
    /\ UNCHANGED_BUT_WAIT

InitLogin ==
    /\ pc = "wait_call"
    /\ cookies = <<>>
    /\ Parked
    /\ capability = FALSE
    /\ consulted = <<>>
    /\ csrf_ret = None
    /\ calls = <<>>
    /\ timeout \in Timeouts
    /\ now = 0
    /\ end = None
    /\ polls = <<>>
    /\ login_cookies = <<>>

NextLogin == WaitStart \/ LoopHead \/ Poll \/ Sleep \/ ReturnAfterTimeout

\* The wait is the only thread of the program: it keeps running
SpecLogin == InitLogin /\ [][NextLogin]_vars /\ WF_vars(NextLogin)

\* ------------------------------------------------- the merged source record
\* The dictionaries over a choice of fields: a field is left out when its
\* value is None
Fields(title, brand_id, size_id) ==
    LET all  == [title |-> title, brand_id |-> brand_id, size_id |-> size_id]
        kept == {k \in DOMAIN all :
                    IF k = "title" THEN all[k] # "" ELSE all[k] # None}
    IN  [k \in kept |-> all[k]]

\* Summaries of a listing, as the wardrobe endpoint gives them
MergeSummaries ==
    {Merge([id |-> 1], Fields(t, b, None)) : t \in {"", "a"}, b \in {None, 7}}

\* Bodies of the second source: a failed fetch, a flat detail payload, the
\* editor payload with its fields under "item", and an editor payload that
\* carries top-level fields next to "item"
MergeDetails ==
    LET inner == {Fields(t, b, s) : t \in {"", "e"}, b \in {None, 8}, s \in {None, 3}}
        flat  == {Fields(t, b, None) : t \in {"", "d"}, b \in {None, 9}}
    IN  flat \cup {[item |-> f] : f \in inner}
             \cup {Merge(d, [item |-> f]) : d \in flat, f \in inner}

\* browser_reposter.py 158 and 172-183: the fields of RepostItemData
collect_item_data(base_item, detailed_item) ==
    LET src == Merge(base_item, detailed_item)
    IN  [item_id |-> src["id"],
         title |-> IF "title" \in DOMAIN src THEN src["title"] ELSE "",
         brand_id |-> Get(src, "brand_id"),
         size_id |-> Get(src, "size_id"),
         catalog_id |-> Get(src, "catalog_id"),
         status_id |-> Get(src, "status_id")]

\* The record of each path for one listing and one second source
MergeCall ==
    /\ calls = <<>>
    /\ \E it \in MergeSummaries, det \in MergeDetails :
         Call([base_item |-> it, detailed_item |-> det],
              [api |-> Src(it, det), normalizer |-> collect_item_data(it, det)])

SpecMerge == InitPure /\ [][MergeCall]_vars

\* ---------------------------------------- the price of the creation payload
\* Python truth of a JSON value: None, zero and the empty string are falsy
Falsy(v) ==
    \/ v.t = "none"
    \/ v.t = "num" /\ v.n = 0
    \/ v.t = "str" /\ v.s = <<>>

\* cli.py 269-279: price_val
price_val(src) ==
    LET first == JGet(src, "price_numeric")
        p == JGet(src, "price")
    IN  IF first # JNone THEN first
        ELSE IF p.t = "dict"
             THEN IF p.amount.t = "num" THEN p.amount
                  ELSE IF p.amount.t = "str" /\ float(p.amount.s).ok
                       THEN JNum(float(p.amount.s).n)
                       ELSE JNone
             ELSE IF p.t = "num" THEN p ELSE JNone

\* cli.py 351: "price": price_val or 0
PayloadPrice(src) == IF Falsy(price_val(src)) THEN JNum(0) ELSE price_val(src)

\* Both price computations on one merged record
PayloadPriceCall ==
    /\ calls = <<>>
    /\ \E src \in PriceSources :
         Call(src, [api |-> PayloadPrice(src), normalizer |-> NormalizedPrice(src)])

SpecPayloadPrice == InitPure /\ [][PayloadPriceCall]_vars

\* ------------------------------------------- the sources of a creation date
\* A second well-formed created_at string, of another instant
DateNested == [iso |-> TRUE, instant |-> 4500]

\* Photo lists with no, one and two high-resolution stamps
StampedPhotos ==
    {<<>>, <<PhotoBare>>,
     <<[id |-> 8, high_resolution |-> [timestamp |-> None]]>>,
     <<[id |-> 8, high_resolution |-> [timestamp |-> 7]]>>,
     <<[id |-> 8, high_resolution |-> [timestamp |-> 9]], PhotoBare,
       [id |-> 7, high_resolution |-> [timestamp |-> 7]]>>}

\* Listings over every combination of the three sources, each absent,
\* unusable or usable
DateItems ==
    LET tss     == {<<>>} \cup {[created_at_ts |-> t] : t \in {None, 5, 3000}}
        isos    == {<<>>} \cup {[created_at |-> d] : d \in {DateOk, DateBad}}
        nesteds == {<<>>} \cup {[item |-> [created_at |-> d]] : d \in {DateNested, DateBad}}
                          \cup {[item |-> [title |-> "e"]]}
        pss     == {<<>>} \cup {[photos |-> ps] : ps \in StampedPhotos}
    IN  {Merge(Merge(Merge(Merge([id |-> 1], t), i), n), p) :
            t \in tss, i \in isos, n \in nesteds, p \in pss}

ResolveCall ==
    /\ calls = <<>>
    /\ \E x \in DateItems : Call(x, _parse_created_at(x))

SpecResolve == InitPure /\ [][ResolveCall]_vars

\* ------------------------------------------------------------------ claims
\* C1: listAll returns the concatenation of the pages it requested, in page
\* order 1,2,3,..., requests each page at most once, and never requests a
\* page whose number is greater than a supplied max_pages.
C1_ListAllWithinCap ==
    /\ requested = [i \in 1..Len(requested) |-> i]
    /\ (pc = "list_returned" => items_all = Flatten(served))
    /\ (max_pages # None => \A i \in 1..Len(requested) : requested[i] <= max_pages)

\* C2: when every response reports the same total-page count T >= 1 (and no
\* cap is supplied), listAll requests pages 1..T and then returns, whatever
\* current_page holds.
C2_StopsAtReportedTotal ==
    \A T \in 1..MaxPage :
        (max_pages = None /\ totals = {T}) =>
            /\ pc # "list_raised"
            /\ \A i \in 1..Len(requested) : requested[i] <= T
            /\ (pc = "list" => page <= T)
            /\ (pc = "list_returned" => requested = [i \in 1..T |-> i])

\* ------------------------------------------------- vocabulary of the claims
WritesOf(op) == {i \in 1..Len(writes) : writes[i].op = op}

PayloadBuilt == DOMAIN item_payload # {}

CreateFailed ==
    /\ writes # <<>>
    /\ writes[Len(writes)].op = "create_item"
    /\ ~writes[Len(writes)].ok

Count(x, s) == Cardinality({i \in 1..Len(s) : s[i] = x})

IsPermutation(s, t) ==
    /\ Len(s) = Len(t)
    /\ \A i \in 1..Len(s) : Count(s[i], s) = Count(s[i], t)

\* C3: every write request carries the token obtained at the gate after the
\* selection (the latest extraction, never the enrichment token), and a run
\* whose gate extraction finds no token exits with 1 without any write.
C3_WritesCarryGateToken ==
    /\ \A i \in 1..Len(writes) :
          /\ writes[i].token = csrf
          /\ writes[i].token # None
          /\ writes[i].token # csrf_list
          /\ writes[i].token = ncsrf
    /\ (pc \in {"details", "photos", "delete", "create"} => csrf # None)
    /\ (ending \in {"created", "create_failed"} => csrf # None)
    /\ (ending = "csrf_unavailable" =>
            csrf = None /\ exit_code = 1 /\ pc = "exit" /\ writes = <<>>)

C3_Witness ==
    /\ csrf_list # None
    /\ WritesOf("upload_photo") # {}
    /\ WritesOf("delete_item") # {}
    /\ WritesOf("create_item") # {}

\* The identity the claim C4 describes: v_uid when it is all digits, else the
\* sub claim of the decoded token when it is all digits, else unresolved.
ExpectedIdentity(jar, jwtlib) ==
    IF "v_uid" \in DOMAIN jar /\ isdigit(jar["v_uid"])
    THEN int_digits(jar["v_uid"])
    ELSE IF /\ "access_token_web" \in DOMAIN jar
            /\ jwtlib
            /\ jar["access_token_web"].decodes
            /\ "sub" \in DOMAIN jar["access_token_web"].payload
         THEN LET sub == jar["access_token_web"].payload["sub"]
              IN  IF "str" \in DOMAIN sub
                  THEN IF isdigit(sub.str) THEN int_digits(sub.str) ELSE None
                  ELSE IF sub.num >= 0 THEN sub.num ELSE None
         ELSE None

\* C4: identity resolution returns the v_uid number, else the token's sub
\* number, else unresolved; the run exits with 1 before any listing request
\* exactly when the identity is unresolved, and goes on to the listing for
\* every resolved id.
C4_AbortsIffUnresolved ==
    pc # "start" =>
        LET id == ExpectedIdentity(cookies, jwt)
        IN  /\ user_id = id
            /\ (id = None => pc = "exit" /\ exit_code = 1 /\ requested = <<>>)
            /\ (id # None => pc = "list" /\ exit_code = None)

\* C5 as stated: exit code 2 exactly when create_item fails, 1 when the
\* identity is unresolved or the write token cannot be obtained, 0 on every
\* other ending.
C5_ExitCodeByEnding ==
    pc = "exit" =>
        /\ (exit_code = 2 <=> CreateFailed)
        /\ (ending \in {"identity_unresolved", "csrf_unavailable"} => exit_code = 1)
        /\ (/\ ~CreateFailed
            /\ ending \notin {"identity_unresolved", "csrf_unavailable"}
            => exit_code = 0)

\* C5 amended: exit code 2 exactly when create_item fails; 1 exactly when the
\* identity gate rejects the id, the write token cannot be obtained, or an
\* exception escapes main (a listing request fails); 0 on every other ending.
C5_ExitCodeAmended ==
    /\ (pc # "exit" => exit_code = None /\ ending = "")
    /\ (pc = "exit" =>
          /\ exit_code \in {0, 1, 2}
          /\ (exit_code = 2 <=> CreateFailed)
          /\ (exit_code = 2 <=> ending = "create_failed")
          /\ (exit_code = 1 <=>
                ending \in {"identity_unresolved", "csrf_unavailable",
                            "uncaught_error"})
          /\ (ending = "uncaught_error" => totals \cap {HttpErr} # {} \/ requested # <<>>)
          /\ (exit_code = 0 <=>
                ending \in {"created", "empty_listing", "blank_selection",
                            "invalid_selection", "out_of_range", "declined",
                            "browser_saved"}))

C5_Witness ==
    /\ pc = "exit"
    /\ ending = "uncaught_error"
    /\ exit_code = 1
    /\ user_id = 42
    /\ HttpErr \in totals

\* C6: delete_item is called only when the payload's assigned_photos is
\* non-empty (a photo was downloaded, uploaded and given an id) and the
\* operator answered yes; without an attached photo the delete prompt is not
\* shown and delete_item is not called.
C6_DeleteOnlyWithPhotos ==
    /\ \A i \in WritesOf("delete_item") :
          /\ PayloadBuilt
          /\ item_payload["item"]["assigned_photos"] # <<>>
          /\ \E k \in 1..Len(outcomes) :
                outcomes[k].done /\ "id" \in DOMAIN outcomes[k].up
          /\ \E j \in 1..Len(asked) : asked[j] = [q |-> "delete", yes |-> TRUE]
    /\ \A j \in 1..Len(asked) :
          asked[j].q = "delete" =>
              PayloadBuilt /\ item_payload["item"]["assigned_photos"] # <<>>
    /\ (/\ pc \in {"create", "exit"}
        /\ PayloadBuilt
        /\ item_payload["item"]["assigned_photos"] = <<>>
        => /\ WritesOf("delete_item") = {}
           /\ \A j \in 1..Len(asked) : asked[j].q # "delete")

C6_Witness ==
    /\ WritesOf("delete_item") # {}
    /\ pc = "create"

\* C7: once the payload is built, create_item is called exactly once with
\* that payload, whether the operator declines the deletion, the deletion
\* succeeds or delete_item raises.
C7_CreateOnceAfterPayload ==
    /\ [](/\ Cardinality(WritesOf("create_item")) <= 1
          /\ (pc \in {"delete", "create"} => WritesOf("create_item") = {})
          /\ (pc = "exit" /\ PayloadBuilt =>
                /\ Cardinality(WritesOf("create_item")) = 1
                /\ writes[Len(writes)].op = "create_item"
                /\ writes[Len(writes)].payload = item_payload))
    /\ [][PayloadBuilt => item_payload' = item_payload]_vars

C7_Witness ==
    /\ pc = "exit"
    /\ WritesOf("create_item") # {}
    /\ \E i \in WritesOf("delete_item") : ~writes[i].ok

\* The assignments C8 describes: one {id, orientation} per source photo that
\* was downloaded and uploaded and got an id, in source order.
ExpectedAssignments(outs) ==
    Flatten([k \in 1..Len(outs) |->
        IF outs[k].done /\ "id" \in DOMAIN outs[k].up
        THEN <<[id |-> outs[k].up["id"],
                orientation |-> IF "orientation" \in DOMAIN outs[k].up
                                THEN outs[k].up["orientation"] ELSE 0]>>
        ELSE <<>>])

\* C8: a failing photo neither ends the run nor stops the loop; the
\* assignments are exactly those of the photos that succeeded, in source
\* order; every upload uses the session id that the payload carries as
\* temp_uuid and upload_session_id.
C8_PhotoFailuresSkipped ==
    /\ assigned_photos = ExpectedAssignments(outcomes)
    /\ Len(outcomes) = pi - 1
    /\ \A a, b \in 1..Len(assigned_photos) :
          a < b => assigned_photos[a].id < assigned_photos[b].id
    /\ \A i \in WritesOf("upload_photo") :
          writes[i].temp_uuid = upload_temp_uuid /\ upload_temp_uuid # None
    /\ (pc \in {"delete", "create"} \/ (pc = "exit" /\ upload_temp_uuid # None) =>
          /\ Len(outcomes) = Len(photos)
          /\ PayloadBuilt
          /\ ending \in {"", "created", "create_failed"}
          /\ item_payload["item"]["assigned_photos"] = assigned_photos
          /\ item_payload["item"]["temp_uuid"] = upload_temp_uuid
          /\ item_payload["upload_session_id"] = upload_temp_uuid)

C8_Witness ==
    /\ Len(outcomes) >= 2
    /\ ~outcomes[1].done
    /\ \E i \in WritesOf("upload_photo") : writes[i].file = 1 /\ ~writes[i].ok
    /\ outcomes[2].done
    /\ assigned_photos # <<>>
    /\ ending = "created"

\* C9: whatever fails during enrichment, the run goes from the enrichment
\* loop to the selection step, and the table shown there holds every listing
\* of the listing result exactly once.
C9_EnrichmentKeepsListings ==
    /\ [](pc = "select" => IsPermutation(enriched, items_all))
    /\ [](pc = "enrich" => enriched = SubSeq(items_all, 1, ei - 1))
    /\ [][pc = "enrich" => pc' \in {"enrich", "select"}]_vars

C9_Witness ==
    /\ pc = "select"
    /\ Len(enriched) >= 2
    /\ csrf_list = None
    /\ \E i \in 1..Len(enriched) :
          DOMAIN enriched[i] \cap (StatKeys \cup CreatedKeys) = {}
    /\ \E i \in 1..Len(enriched) :
          DOMAIN enriched[i] \cap CreatedKeys # {}

\* C10: with the browser toggle on, a form fill that raises or does not
\* confirm the save is followed by the API path (CSRF gate, photos,
\* create_item), and one that confirms ends the run with status 0 and no
\* write request.
C10_BrowserFallsThrough ==
    /\ (~browser => fills = <<>>)
    /\ Len(fills) <= 1
    /\ (fills # <<>> /\ fills[1] =>
          /\ pc = "exit"
          /\ exit_code = 0
          /\ ending = "browser_saved"
          /\ writes = <<>>)
    /\ (fills # <<>> /\ ~fills[1] =>
          /\ pc \in {"csrf_gate", "details", "photos", "delete", "create", "exit"}
          /\ (pc = "exit" =>
                ending \in {"csrf_unavailable", "created", "create_failed"}))

C10_Witness ==
    /\ fills = <<FALSE>>
    /\ ending = "created"
    /\ WritesOf("upload_photo") # {}

\* The attempt of CsrfAttempts that a finished call of extract_csrf met.
AttemptMet ==
    LET b == IF ~capability THEN "unavailable" ELSE consulted[1].met
        last == consulted[Len(consulted)]
        h == IF last.by = "http" /\ last.met = "token" THEN "token" ELSE "none"
    IN  <<b, h>>

\* C11: extract_csrf never raises; the browser strategy runs first when the
\* capability is there and its token is returned at once, without the HTTP
\* fallback; otherwise (capability missing, no token, exception) the HTTP
\* fallback runs, and each of its failures returns not found (None).
C11_CsrfStrategiesInOrder ==
    /\ pc \in {"csrf_call", "csrf_fallback", "csrf_returned"}
    /\ Len(consulted) <= 2
    /\ \A i \in 1..Len(consulted) :
          /\ (consulted[i].by = "browser" => i = 1 /\ capability)
          /\ (consulted[i].by = "http" =>
                /\ i = Len(consulted)
                /\ (capability => /\ i = 2
                                  /\ consulted[1].by = "browser"
                                  /\ consulted[1].met \in {"none", "raise"})
                /\ (~capability => i = 1))
    /\ (pc = "csrf_returned" =>
          LET last == consulted[Len(consulted)]
          IN  /\ csrf_ret = last.tok
              /\ (csrf_ret = None <=>
                    last.by = "http" /\
                    last.met \in {"no_match", "status_error", "network_error"})
              /\ (capability /\ consulted[1].met = "token" =>
                    Len(consulted) = 1 /\ csrf_ret = consulted[1].tok)
              /\ (csrf_ret = None <=> extract_csrf(AttemptMet, 1) = None))

C11_Witness ==
    /\ pc = "csrf_returned"
    /\ Len(consulted) = 2
    /\ consulted[1].met = "raise"
    /\ consulted[2].met = "status_error"
    /\ csrf_ret = None

DateUnknown(x) == _parse_created_at(x) = None

DateKnown(x) == _parse_created_at(x) # None

\* C12: the sorted list is a permutation of the input made of the listings
\* with a known creation date, in ascending instant, followed by the
\* listings with an unknown date in their original relative order.
C12_SortOldestFirstUnknownLast ==
    \A c \in 1..Len(calls) :
        LET arg == calls[c].arg
            ret == calls[c].ret
            known == SelectSeq(ret, DateKnown)
        IN  /\ IsPermutation(ret, arg)
            /\ ret = known \o SelectSeq(arg, DateUnknown)
            /\ \A i, j \in 1..Len(known) :
                  i < j => _parse_created_at(known[i]) <= _parse_created_at(known[j])

C12_Witness ==
    /\ calls # <<>>
    /\ calls[1].arg = <<[id |-> 6, created_at |-> DateBad], [id |-> 1],
                        [id |-> 2, created_at_ts |-> 5]>>
    /\ calls[1].ret = <<[id |-> 2, created_at_ts |-> 5],
                        [id |-> 6, created_at |-> DateBad], [id |-> 1]>>

\* The fragments of one kind, in text order
OfKind(frags, kind) ==
    LET Is(f) == f.kind = kind IN SelectSeq(frags, Is)

\* The cookie pairs of fragments as a map from name to value
PairMap(frags) ==
    LET ps == Flatten([i \in 1..Len(frags) |-> frags[i].pairs])
    IN  [n \in {<<ps[i][1]>> : i \in 1..Len(ps)} |->
            <<ps[CHOOSE i \in 1..Len(ps) : ps[i][1] = n[1]][2]>>]

\* The union of the header cookies and the -b cookies, -b first
ExpectedCookies(frags) ==
    LET jar == PairMap(OfKind(frags, "jar"))
        hdr == PairMap(OfKind(frags, "cookie_header"))
    IN  [n \in DOMAIN jar \cup DOMAIN hdr |->
            IF n \in DOMAIN jar THEN jar[n] ELSE hdr[n]]

HasUrlToken(head, frags) ==
    \/ head.kind \in {"single", "double", "bare", "bracket"}
    \/ head.kind = "no_url" /\ frags # <<>>

ExpectedUrl(head, frags) ==
    CASE head.kind \in {"single", "double", "bare"} -> UrlPieces
      [] head.kind = "bracket" -> <<"https", ":", "//[x">>
      [] OTHER -> <<Head(frags[1].text)>>

\* The well-formed header fragments that no later one overrides
LastHeaders(frags) ==
    {i \in 1..Len(frags) :
        /\ frags[i].kind \in {"header", "cookie_header"}
        /\ \A j \in (i + 1)..Len(frags) : frags[j].key # frags[i].key}

\* C20: parse_curl fails exactly when no URL token follows the curl keyword;
\* a cookie part without '=' or a header without closing quote neither fails
\* the parse nor changes what is returned for the well-formed fragments: the
\* URL, every well-formed header, and the cookies of -b and Cookie header.
C20_MalformedFragmentsIgnored ==
    \A c \in 1..Len(calls) :
        LET head == calls[c].arg.head
            frags == calls[c].arg.frags
            ret == calls[c].ret
        IN  /\ ret.ok <=> HasUrlToken(head, frags)
            /\ ret.ok =>
                /\ ret.url = ExpectedUrl(head, frags)
                /\ \A i \in LastHeaders(frags) :
                      /\ frags[i].key \in DOMAIN ret.headers
                      /\ ret.headers[frags[i].key] = frags[i].value
                /\ (/\ Len(OfKind(frags, "jar")) <= 1
                    /\ Len(OfKind(frags, "cookie_header")) <= 1
                    => ret.cookies = ExpectedCookies(frags))

\* The resolution C14 describes: the first present top-level field, else
\* the first present format in the order of FormatKeys.
PriorityUrl(p) ==
    LET top == {j \in 1..Len(TopUrlKeys) : TopUrlKeys[j] \in DOMAIN p}
        fs == IF "formats" \in DOMAIN p THEN p["formats"] ELSE <<>>
        fmt == {j \in 1..Len(FormatKeys) :
                   \E n \in 1..Len(fs) : fs[n].k = FormatKeys[j]}
    IN  IF top # {} THEN UrlOf(TopUrlKeys[Min(top)])
        ELSE IF fmt # {} THEN UrlOf(FormatKeys[Min(fmt)])
        ELSE NoUrl

\* C14: the API re-upload path and the normalizer resolve every photo entry
\* to the same URL: the first present of full_size_url, url, image_url,
\* original_url, original, else the first present format of xxl, xl, l, m,
\* original, whatever the key order of the formats map.
C14_OnePhotoUrlPriority ==
    \A c \in 1..Len(calls) :
        LET p == calls[c].arg
            want == PriorityUrl(p)
        IN  /\ calls[c].ret.api = want
            /\ calls[c].ret.normalizer = IF want = NoUrl THEN <<>> ELSE <<want>>

\* What the claims C15 say of one supplied amount: a number is kept, a
\* numeric string is its number (12,50 and 12.5 are 12.5), any other string
\* is an absent price.
ReadAmount(a) ==
    CASE a.t = "num" -> a
      [] a = JStr(<<"1", "2", ",", "5", "0">>) -> JNum(1250)
      [] a = JStr(<<"1", "2", ".", "5">>) -> JNum(1250)
      [] a = JStr(<<"7">>) -> JNum(700)
      [] OTHER -> JNone

\* The supplying source in the order price_numeric, price.amount, price;
\* legacy tells which legacy price values count as a source.
Supplied(src, legacy) ==
    LET p == JGet(src, "price")
    IN  IF JGet(src, "price_numeric") # JNone THEN src["price_numeric"]
        ELSE IF p.t = "dict" THEN p.amount
        ELSE IF p.t \in legacy THEN p
        ELSE JNone

\* C15 as stated: whichever of price_numeric, price.amount and the legacy
\* price supplies the amount, a number is kept, a numeric string with a
\* comma is parsed and a non-numeric string gives an absent price.
C15_PriceFromAnySource ==
    \A c \in 1..Len(calls) :
        calls[c].ret = ReadAmount(Supplied(calls[c].arg, {"num", "str"}))

\* C15 amended: the legacy price field supplies the amount only when it is
\* a number; a string there gives an absent price.
C15_PriceLegacyNumericOnly ==
    \A c \in 1..Len(calls) :
        /\ calls[c].ret = ReadAmount(Supplied(calls[c].arg, {"num"}))
        /\ calls[c].ret.t \in {"num", "none"}

C15_Witness ==
    /\ calls # <<>>
    /\ calls[1].arg = [price |-> JStr(<<"1", "2", ",", "5", "0">>)]
    /\ calls[1].ret = JNone

\* C16: a stamp above the threshold is read as milliseconds and any other as
\* seconds, so a seconds value s above one thousandth of the threshold and
\* not above the threshold resolves to the same instant as 1000 * s.
C16_SecondsAndMillisAgree ==
    /\ \A c \in 1..Len(calls) :
          LET ts == calls[c].arg["created_at_ts"]
          IN  /\ calls[c].ret # None
              /\ (ts > MsThreshold <=> calls[c].ret = ts)
              /\ (ts <= MsThreshold <=> calls[c].ret = 1000 * ts)
    /\ \A c, d \in 1..Len(calls) :
          LET s == calls[c].arg["created_at_ts"]
          IN  (/\ 1000 * s > MsThreshold
               /\ s <= MsThreshold
               /\ calls[d].arg["created_at_ts"] = 1000 * s)
              => calls[c].ret = calls[d].ret

C16_Witness ==
    /\ Len(calls) = 2
    /\ calls[1].arg["created_at_ts"] = MsThreshold
    /\ calls[2].arg["created_at_ts"] = 1000 * MsThreshold
    /\ calls[1].ret = calls[2].ret

\* The URLs of the inputs that are a numeric profile page
ProfileUrls ==
    {<<WwwHost, "/member/", "12">>, <<WwwHost, "/member/", "12", "-anna?tab=closet">>}

LoginCookieNames == {"v_uid", "access_token_web"}

ValuedNames(read) ==
    {read.cs[i].name : i \in {j \in 1..Len(read.cs) :
                                 read.cs[j].name # "" /\ read.cs[j].value # None}}

\* The last poll read both a login cookie and a profile URL
ObservedLogin ==
    /\ polls # <<>>
    /\ ~polls[1].url.raises
    /\ ~polls[1].url.none
    /\ polls[1].url.s \in ProfileUrls
    /\ ~polls[1].jar.raises
    /\ ValuedNames(polls[1].jar) \cap LoginCookieNames # {}

\* A read of the last poll raised, or gave no URL at all
PollFailed == polls[1].url.raises \/ polls[1].url.none \/ polls[1].jar.raises

Waiting == pc \in {"wait_head", "wait_poll", "wait_sleep", "wait_break"}

\* C17: the wait returns the cookies of the poll that observes a login
\* cookie together with a profile URL, and of no other poll; with a positive
\* timeout it returns once the deadline has passed, and does return; with a
\* non-positive timeout it returns on the observation only; a poll whose
\* reads fail is followed by the sleep.
C17_LoginWait ==
    /\ [](pc = "wait_returned" =>
            /\ ObservedLogin
            /\ DOMAIN login_cookies = ValuedNames(polls[1].jar))
    /\ [](polls # <<>> /\ ObservedLogin => pc = "wait_returned")
    /\ [](polls # <<>> /\ PollFailed => pc = "wait_sleep")
    /\ [](pc \in {"wait_break", "wait_expired"} => timeout > 0 /\ now >= timeout)
    /\ [](pc = "wait_poll" => timeout <= 0 \/ now < timeout)
    /\ ((timeout > 0 /\ Waiting) ~> pc \in {"wait_returned", "wait_expired"})

C17_Witness ==
    /\ pc = "wait_returned"
    /\ timeout <= 0
    /\ now > 0
    /\ ObservedLogin

C17_WitnessExpired ==
    /\ pc = "wait_expired"
    /\ "v_uid" \in DOMAIN login_cookies

\* The prompt keys, as a set
PromptKeySet == {PromptKeys[j] : j \in 1..Len(PromptKeys)}

\* The prompt keys the operator has been asked for
AskedKeys == {asked[i].q : i \in 1..Len(asked)} \cap PromptKeySet

\* The prompt keys the merged source record has no value for
MissingKeys == {k \in PromptKeySet : Get(Src(item, details), k) = None}

\* C18: once the creation payload is built, the operator has been asked for
\* exactly those of brand_id, size_id, catalog_id and status_id that the
\* merged source record lacks, and a key left unanswered stays unset.
C18_PromptsForMissingKeys ==
    PayloadBuilt =>
        /\ AskedKeys = MissingKeys
        /\ \A k \in PromptKeySet \ MissingKeys :
              item_payload["item"][k] = Src(item, details)[k]

\* The sources of a call in merge order: the summary, the top level of the
\* second payload, and the fields the editor payload carries for the item
SourcesOf(arg) ==
    <<arg.base_item,
      [k \in DOMAIN arg.detailed_item \ {"item"} |-> arg.detailed_item[k]],
      IF "item" \in DOMAIN arg.detailed_item THEN arg.detailed_item["item"] ELSE <<>>>>

\* Whether some source has the key, and the value of the last one that has it
InSources(k, srcs) == \E i \in 1..Len(srcs) : k \in DOMAIN srcs[i]

LastValue(k, srcs) ==
    srcs[Max({i \in 1..Len(srcs) : k \in DOMAIN srcs[i]})][k]

MergedFields == {"title", "brand_id", "size_id"}

\* C19: in the record of the API path and in the record of the normalizer,
\* every field has the value of the last source that contains it, the fields
\* the editor payload carries for the item included.
C19_LastSourceWins ==
    \A c \in 1..Len(calls) :
        \A k \in MergedFields :
            InSources(k, SourcesOf(calls[c].arg)) =>
                /\ k \in DOMAIN calls[c].ret.api
                /\ calls[c].ret.api[k] = LastValue(k, SourcesOf(calls[c].arg))
                /\ calls[c].ret.normalizer[k] = LastValue(k, SourcesOf(calls[c].arg))

\* The same for the record of the API path alone
C19_ApiLastSourceWins ==
    \A c \in 1..Len(calls) :
        \A k \in MergedFields :
            InSources(k, SourcesOf(calls[c].arg)) =>
                /\ k \in DOMAIN calls[c].ret.api
                /\ calls[c].ret.api[k] = LastValue(k, SourcesOf(calls[c].arg))

\* C21: the price of the creation payload is the price the normalizer
\* yields for the same merged record, and a price the normalizer finds
\* absent or unparsable is not submitted as the number 0.
C21_PayloadPriceIsNormalizedPrice ==
    \A c \in 1..Len(calls) :
        /\ calls[c].ret.api = calls[c].ret.normalizer
        /\ calls[c].ret.normalizer = JNone => calls[c].ret.api # JNum(0)

\* The two computations agree where the record carries a non-zero number
C21_AgreeOnNumbers ==
    \A c \in 1..Len(calls) :
        (Supplied(calls[c].arg, {"num"}).t = "num" /\ Supplied(calls[c].arg, {"num"}).n # 0)
            => calls[c].ret.api = calls[c].ret.normalizer

\* What each source of a listing yields, None where it is absent or unusable
FromStamp(x) ==
    IF Get(x, "created_at_ts") = None THEN None
    ELSE IF x["created_at_ts"] > MsThreshold THEN x["created_at_ts"]
    ELSE 1000 * x["created_at_ts"]

FromIso(x) ==
    LET texts == (IF "created_at" \in DOMAIN x THEN <<x["created_at"]>> ELSE <<>>)
                 \o (IF "item" \in DOMAIN x /\ "created_at" \in DOMAIN x["item"]
                     THEN <<x["item"]["created_at"]>> ELSE <<>>)
    IN  IF texts # <<>> /\ texts[1].iso THEN texts[1].instant ELSE None

FromPhotos(x) ==
    LET ts == IF "photos" \in DOMAIN x
              THEN {x["photos"][j]["high_resolution"]["timestamp"] :
                       j \in {n \in 1..Len(x["photos"]) :
                                "high_resolution" \in DOMAIN x["photos"][n]}} \ {None}
              ELSE {}
    IN  IF ts = {} THEN None
        ELSE 1000 * (CHOOSE t \in ts : \A u \in ts : t <= u)

SourcesInOrder(x) == <<FromStamp(x), FromIso(x), FromPhotos(x)>>

\* C22: the date is what the first of the numeric stamp, the created_at
\* string (of the listing, else of the nested editor item) and the earliest
\* photo stamp yields; a later source counts only when every earlier one
\* yields nothing, and the date is unknown exactly when none yields a value.
C22_FirstUsableSource ==
    \A c \in 1..Len(calls) :
        LET srcs == SourcesInOrder(calls[c].arg)
            usable == {i \in 1..3 : srcs[i] # None}
        IN  /\ usable # {} => calls[c].ret = srcs[CHOOSE i \in usable : \A j \in usable : i <= j]
            /\ usable = {} <=> calls[c].ret = None

C22_Witness ==
    /\ calls # <<>>
    /\ Get(calls[1].arg, "created_at_ts") = None
    /\ "created_at" \in DOMAIN calls[1].arg
    /\ ~calls[1].arg["created_at"].iso
    /\ "photos" \in DOMAIN calls[1].arg
    /\ Len(calls[1].arg["photos"]) = 3
    /\ calls[1].ret = 7000

\* The original listing is gone: a delete_item request has succeeded
OriginalDeleted == \E i \in WritesOf("delete_item") : writes[i].ok

\* A new listing exists: a create_item request has succeeded
NewCreated == \E i \in WritesOf("create_item") : writes[i].ok

\* C23 as stated: delete_item and create_item are each called at most once,
\* a run in which delete_item has succeeded ends with a successful
\* create_item, and a run that ends with exit code 2 has left the original
\* listing in place.
C23_NeverDeletedWithoutCreated ==
    /\ Cardinality(WritesOf("delete_item")) <= 1
    /\ Cardinality(WritesOf("create_item")) <= 1
    /\ (pc = "exit" /\ OriginalDeleted => NewCreated)
    /\ (pc = "exit" /\ exit_code = 2 => ~OriginalDeleted)

\* C23 amended: delete_item and create_item are each called at most once,
\* delete_item before create_item and for the selected listing; a run in
\* which delete_item has succeeded ends with one create_item call, with exit
\* code 0 when that call succeeds and with exit code 2, the original listing
\* deleted and no new listing created, when it fails.
C23_DeleteThenCreate ==
    /\ Cardinality(WritesOf("delete_item")) <= 1
    /\ Cardinality(WritesOf("create_item")) <= 1
    /\ \A i \in WritesOf("delete_item"), j \in WritesOf("create_item") : i < j
    /\ \A i \in WritesOf("delete_item") : writes[i].item_id = item["id"]
    /\ (pc = "exit" /\ OriginalDeleted =>
          /\ Cardinality(WritesOf("create_item")) = 1
          /\ writes[Len(writes)].op = "create_item"
          /\ (NewCreated <=> exit_code = 0)
          /\ (~NewCreated <=> exit_code = 2))

C23_Witness ==
    /\ pc = "exit"
    /\ exit_code = 2
    /\ OriginalDeleted
    /\ ~NewCreated

\* The state-changing requests issued so far: the API writes and the browser
\* form-fills
StateChanging == Len(writes) + Len(fills)

\* The repost confirmations the operator has given
Confirmations == {j \in 1..Len(asked) : asked[j].q = "repost"}

RefusedEndings == {"blank_selection", "invalid_selection", "out_of_range", "declined"}

\* C24: a state-changing request is issued only after a selection within
\* 1..N and a yes to the repost confirmation; a blank, non-integer or
\* out-of-range selection and a declined confirmation end the run with no
\* such request; the item acted on is the row of the sorted table at the
\* selected position.
C24_WritesOnlyAfterConfirmedSelection ==
    /\ [](StateChanging > 0 =>
            \E j \in Confirmations : asked[j].yes /\ asked[j].at >= 1)
    /\ [](ending \in RefusedEndings =>
            /\ pc = "exit"
            /\ StateChanging = 0
            /\ \A j \in Confirmations : ~asked[j].yes)
    /\ [](\A i \in WritesOf("delete_item") : writes[i].item_id = item["id"])
    /\ [][pc = "select" =>
            /\ StateChanging = 0
            /\ StateChanging' = 0
            /\ \/ /\ pc' = "exit"
                  /\ ending' \in RefusedEndings
                  /\ \A j \in 1..Len(asked') : asked'[j].q = "repost" => ~asked'[j].yes
               \/ /\ pc' # "exit"
                  /\ asked' # <<>>
                  /\ LET last == asked'[Len(asked')]
                     IN  /\ last.q = "repost"
                         /\ last.yes
                         /\ last.at \in 1..Len(enriched)
                         /\ item' = SortByKey(enriched)[last.at]]_vars

C24_Witness ==
    /\ WritesOf("upload_photo") # {}
    /\ \E j \in Confirmations : asked[j].yes /\ asked[j].at = 2
    /\ item["id"] = 2

C24_WitnessRefused ==
    /\ pc = "exit"
    /\ ending = "out_of_range"
    /\ StateChanging = 0
====
